---- MODULE Spec2Model ----
(***************************************************************************)
(* Verification model of the solve-server task queue (models/task.rs,      *)
(* models/persistent_store.rs), the task handle and its pinger             *)
(* (managers/tasks/mod.rs), the invoker worker loop (invoker/base.rs) and  *)
(* the single-flight cache manager (lib/solve-cache).                      *)
(*                                                                         *)
(* Time is a discrete clock of Res ticks per second.  Instants held in     *)
(* memory are ticks; instants stored in the database are whole seconds     *)
(* (solve-db-types Instant::into_value writes DateTime::timestamp()).      *)
(* The time origin is the start of the current second: `now` is the tick   *)
(* within that second and every timestamp is an offset from it, moved back *)
(* by one second whenever the clock crosses a second boundary.  A          *)
(* timestamp that has fallen into the past stays where it is, since the    *)
(* program only ever compares timestamps with now or later.                *)
(***************************************************************************)
EXTENDS Integers, Sequences, FiniteSets, TLC

\* ---------------------------------------------------------------- bounds
NumWorkers == 2
NumTasks == 2
\* clock ticks per second
Res == 2
\* the clock stops once a task has more than MaxEvents events
MaxEvents == 3
MaxExternal == 1
MaxHandlerOps == 1
NumCallers == 2
NumKeys == 2
\* capacity the LruCache is built with
CacheCap == 1
\* Store::load calls made in a run
MaxLoads == 3
\* callers of the object store, ids its table can hold, events it records
NumClients == 2
MaxObjectIds == 2
MaxLog == 4
\* methods a caller runs in one transaction of its own
MaxTxOps == 2
\* file manager: concurrent callers and uploads made in a run
NumUploaders == 2
MaxUploads == 2
\* sandbox: ProcessConfig.real_time_limit and time_limit in ticks of 500 us,
\* ticks the clock is followed past the limit, wait() calls in a run
RealTimeLimit == 3
TimeLimit == 2
MaxOvershoot == 3
MaxWaits == 2
\* children one Process may spawn
MaxStarts == 2
\* calls each user of one Task handle makes
MaxCalls == 2
\* enum columns: the integers -MaxValue..MaxValue are tried as stored values
MaxValue == 130

\* ------------------------------------------------------ program constants
Queued == 0
Running == 1
Succeeded == 2
Failed == 3
JudgeSolution == 1
UpdateProblemPackage == 2
LeaseSecs == 30
PingPeriodSecs == 1
PingMarginSecs == 15
PingLeaseSecs == 30
SelectLimit == 5

Workers == 1..NumWorkers
Callers == 1..NumCallers
Keys == 1..NumKeys
Clients == 1..NumClients
ObjectIds == 1..MaxObjectIds
Uploaders == 1..NumUploaders
FileIds == 1..MaxUploads
\* kind column values present in the table; 3 has no named variant
KindValues == {JudgeSolution, 3}
StateValues == {0, 1}

VARIABLES
    now,        \* clock: the tick within the current second
    rows,       \* solve_task table: id -> row
    events,     \* solve_task_event table: id -> sequence of event kinds
    pc,         \* worker -> position in run_worker / run_task
    tx,         \* worker -> open transaction (pending row write) or NoTx
    handle,     \* worker -> TaskInner {task, stored_task} or NoHandle
    mu,         \* worker -> holder of TaskInner.task mutex
    pinger,     \* worker -> pinger task {pc, left, failed}
    token,      \* worker -> run_task's CancellationToken is cancelled
    hres,       \* worker -> handler result ("none", "ok", "err")
    hops,       \* worker -> number of handle calls the handler has made
    commits,    \* id -> number of take_task transactions committed on it
    ext,        \* number of updates by the external client
    cache,      \* LruCache: sequence of [key, obj], least recently used first
    futs,       \* Manager.futures: key -> id of the shared future, or 0
    fut,        \* shared futures created so far: id -> [key, st, res]
    readers,    \* callers holding a read guard of the futures RwLock
    cpc,        \* caller -> position in Manager::load / reload / delete
    ckey,       \* caller -> key of the call in progress
    cfut,       \* caller -> the Shared clone it awaits, or 0
    held,       \* caller -> the Object handle it holds, or 0
    freed,      \* object -> number of Store::free calls made for it
    loads,      \* key -> number of Store::load calls made for it
    plain,      \* key -> only load() has touched it: no delete, no eviction,
                \* no reload() call, no failed load
    shutdown,   \* the process-level CancellationToken is cancelled
    runres,     \* Invoker::run: "running", or its result "ok" / "err"
    backend,    \* the database of the object store: "sqlite" or "postgres"
    table,      \* object table of the store: id -> row, or NoRow
    log,        \* event table of the store: [kind, id] in event_id order
    sop,        \* client -> the store operation it is in
    ctx,        \* client -> the transaction it has begun itself and passes
                \* to the store in Context::with_tx
    frow,       \* solve_file table: id -> File row, or NoFile
    fblob,      \* keys whose content is in the file storage
    fseq,       \* number of storage keys generated so far
    fop,        \* caller -> the FileManager call it is in
    xnow,       \* sandbox clock: 500 us ticks since the supervisor began
    proc,       \* the safeexec Process object and what its owner has seen
    sup,        \* the supervisor thread of the Process (Process::run)
    child,      \* the sandboxed child process
    conv,       \* an enum column value on its way through decode and encode
    lk,         \* mutex of one TaskInner ("task", "stored") -> its holder
    lq,         \* mutex -> the callers waiting for it, in arrival order
    hu          \* user of the handle -> the call of the handle it is in

tvars == <<now, rows, events, pc, tx, handle, mu, pinger, token, hres, hops,
           commits, ext>>
cvars == <<cache, futs, fut, readers, cpc, ckey, cfut, held, freed, loads,
           plain>>
pvars == <<shutdown, runres>>
svars == <<backend, table, log, sop, ctx>>
fvars == <<frow, fblob, fseq, fop>>
xvars == <<xnow, proc, sup, child>>
evars == <<conv>>
hvars == <<lk, lq, hu>>
ovars == <<fvars, xvars, evars, hvars>>
vars == <<tvars, cvars, pvars, svars, ovars>>

\* the ids of the rows of the task table
TaskIds == DOMAIN rows

NoTx == [id |-> 0]
NoHandle == [id |-> 0]
NoPinger == [pc |-> "none", left |-> 0, failed |-> FALSE]
None == {}
Some(v) == {v}

\* ------------------------------------------------------------ conversions
\* Instant::into_value: whole seconds of the timestamp
InstantToValue(i) == i \div Res
\* Instant::from_value: DateTime::from_timestamp(secs, 0)
ValueToInstant(s) == s * Res
OptToValue(o) == {InstantToValue(i) : i \in o}
OptFromValue(o) == {ValueToInstant(s) : s \in o}

\* #[derive(Value)] enum TaskKind: named variant or Unknown(v)
TaskKindOf(v) ==
    IF v = JudgeSolution THEN "JudgeSolution"
    ELSE IF v = UpdateProblemPackage THEN "UpdateProblemPackage"
    ELSE "Unknown"
TaskStatusOf(v) ==
    IF v = Queued THEN "Queued"
    ELSE IF v = Running THEN "Running"
    ELSE IF v = Succeeded THEN "Succeeded"
    ELSE IF v = Failed THEN "Failed"
    ELSE "Unknown"

\* Task::is_valid
IsValid(task) ==
    TaskKindOf(task.kind) # "Unknown" /\ TaskStatusOf(task.status) # "Unknown"

\* FromRow for Task: the in-memory object of a table row
FromRow(id, row) ==
    [id |-> id, kind |-> row.kind, config |-> row.config, status |-> row.status,
     state |-> row.state, expire |-> OptFromValue(row.expire)]
\* IntoRow for Task (id column filtered out)
IntoRow(task) ==
    [kind |-> task.kind, config |-> task.config, status |-> task.status,
     state |-> task.state, expire |-> OptToValue(task.expire)]

\* an expiry test that only a missing expire_time fails
IsExpiredNoneOnly(task, t) == task.expire = None

\* Task::is_expired
IsExpired(task, t) ==
    IF task.expire = None THEN TRUE ELSE \E v \in task.expire : v < t

\* a fence that leaves the expire_time column out
FencePredicateNoExpire(row, task) ==
    /\ row.kind = task.kind
    /\ row.status = task.status

\* column("kind").equal(kind).and(status.equal).and(expire_time.equal)
FencePredicate(row, task) ==
    /\ row.kind = task.kind
    /\ row.status = task.status
    /\ row.expire = OptToValue(task.expire)

\* ---------------------------------------------------------------- database
\* a row is write-locked by a transaction that updated it and has not ended
LockedByOther(w, id) == \E v \in Workers \ {w} : tx[v].id = id /\ tx[v].locked

\* an UPDATE that sees only its own snapshot: no row lock, no serialization
\* check
DbUpdateNoIsolation(w, id, snap, stale, fence) ==
    FencePredicate(snap, fence)

\* UPDATE ... WHERE id = $id AND predicate RETURNING ..., in a RepeatableRead
\* transaction whose snapshot holds row `snap`: one row is returned iff the
\* predicate holds on the snapshot row and no other transaction has changed
\* (stale) or is changing (locked) the row since the snapshot; otherwise the
\* query yields no row or a serialization error, and update_object returns
\* Err
DbUpdateOk(w, id, snap, stale, fence) ==
    /\ FencePredicate(snap, fence)
    /\ ~stale
    /\ ~LockedByOther(w, id)

\* the effect of committing worker w's transaction on the two tables
CommitRows(w) ==
    [rows EXCEPT ![tx[w].id] = IntoRow(tx[w].new)]
\* the transaction ends; snapshots of the row held by others are now stale
CommitTx(w, id) ==
    [v \in Workers |->
        IF v = w THEN NoTx
        ELSE IF tx[v].id = id THEN [tx[v] EXCEPT !.stale = TRUE]
        ELSE tx[v]]
CommitEvents(w) ==
    [events EXCEPT ![tx[w].id] = Append(@, "Update")]
\* event.into_object(): the row as returned by RETURNING
CommittedObject(w) == FromRow(tx[w].id, CommitRows(w)[tx[w].id])

OpenTx(id, snap, new, locked) ==
    [id |-> id, snap |-> snap, new |-> new, locked |-> locked,
     stale |-> FALSE]

\* ------------------------------------------------------------- take_task
\* a selection by the wrong status test
SelectableNotRunning(row) == row.status # Running

\* Select::new().with_where(column("status").equal(TaskStatus::Queued))
Selectable(row) == row.status = Queued

\* .with_limit(5) under ORDER BY id
Batch == LET S == {t \in TaskIds : Selectable(rows[t])}
         IN {t \in S : Cardinality({u \in S : u < t}) < SelectLimit}

\* a row loop that takes the first row of the batch whatever its kind
CandidatesOfAnyKind == Batch

\* the loop over rows: skip Unknown kinds, break on the first other row
Candidates == {t \in Batch : TaskKindOf(rows[t].kind) # "Unknown"}
\* a row loop that keeps the last row of a known kind instead of breaking
LastCandidate == CHOOSE t \in Candidates : \A u \in Candidates : t >= u
FirstCandidate == CHOOSE t \in Candidates : \A u \in Candidates : t <= u

\* the handle, its pinger and the token are dropped when run_task returns
ResetRun(w) ==
    /\ handle' = [handle EXCEPT ![w] = NoHandle]
    /\ pinger' = [pinger EXCEPT ![w] = NoPinger]
    /\ token' = [token EXCEPT ![w] = FALSE]
    /\ hres' = [hres EXCEPT ![w] = "none"]
    /\ hops' = [hops EXCEPT ![w] = 0]

\* take_task up to the end of the row loop (begin transaction, find, iterate)
TakeSelect(w) ==
    /\ pc[w] = "loop" /\ ~shutdown
    /\ IF Candidates = {}
       THEN /\ pc' = [pc EXCEPT ![w] = "take_none"]
            /\ UNCHANGED tx
       ELSE /\ pc' = [pc EXCEPT ![w] = "selected"]
            /\ tx' = [tx EXCEPT ![w] =
                   OpenTx(FirstCandidate, rows[FirstCandidate],
                          FromRow(FirstCandidate, rows[FirstCandidate]), FALSE)]
    /\ UNCHANGED <<ovars, cvars, pvars, svars, now, rows, events, handle, mu, pinger, token, hres, hops,
                   commits, ext>>

\* new_task and the fenced update_where inside the transaction
TakeUpdate(w) ==
    /\ pc[w] = "selected"
    /\ LET task == FromRow(tx[w].id, tx[w].snap)
           new_task == [task EXCEPT !.status = Running,
                                    !.expire = Some(now + LeaseSecs * Res)]
       IN IF IsValid(new_task) /\ DbUpdateOk(w, tx[w].id, tx[w].snap, tx[w].stale, task)
          THEN /\ tx' = [tx EXCEPT ![w].new = new_task, ![w].locked = TRUE]
               /\ pc' = [pc EXCEPT ![w] = "updated"]
          ELSE /\ tx' = [tx EXCEPT ![w].locked = FALSE]
               /\ pc' = [pc EXCEPT ![w] = "take_err"]
    /\ UNCHANGED <<ovars, cvars, pvars, svars, now, rows, events, handle, mu, pinger, token, hres, hops,
                   commits, ext>>

\* tx.commit(), Ok(Some(event.into_object())) and TaskManager::take_task
\* building the handle from it
TakeCommit(w) ==
    /\ pc[w] = "updated"
    /\ rows' = CommitRows(w)
    /\ events' = CommitEvents(w)
    /\ commits' = [commits EXCEPT ![tx[w].id] = @ + 1]
    /\ handle' = [handle EXCEPT ![w] =
           [id |-> tx[w].id, task |-> CommittedObject(w),
            stored |-> CommittedObject(w)]]
    /\ tx' = CommitTx(w, tx[w].id)
    /\ pc' = [pc EXCEPT ![w] = "claimed"]
    /\ UNCHANGED <<ovars, cvars, pvars, svars, now, mu, pinger, token, hres, hops, ext>>

\* a backoff that sleeps its delay out whatever the shutdown token says
BackoffUncancellable(w) ==
    /\ pc[w] \in {"take_none", "take_err"}
    /\ pc' = [pc EXCEPT ![w] = "loop"]
    /\ tx' = [tx EXCEPT ![w] = NoTx]
    /\ UNCHANGED <<ovars, cvars, pvars, svars, now, rows, events, handle, mu, pinger, token, hres,
                   hops, commits, ext>>

\* run_worker on Ok(None) and on Err: timeout(delay, shutdown.cancelled())
\* runs out, then `continue`
Backoff(w) ==
    /\ pc[w] \in {"take_none", "take_err"} /\ ~shutdown
    /\ pc' = [pc EXCEPT ![w] = "loop"]
    /\ tx' = [tx EXCEPT ![w] = NoTx]
    /\ UNCHANGED <<ovars, cvars, pvars, svars, now, rows, events, handle, mu, pinger, token, hres,
                   hops, commits, ext>>

\* ------------------------------------------------------------ task handle
\* a Task::update that checks the expiry only and updates by id
HandleUpdateUnfenced(w) ==
    ~IsExpired(handle[w].stored, now)

\* Task::update up to the UPDATE statement: the expiry check on stored_task
\* and the fenced update_where in a transaction of its own
HandleUpdateOk(w) ==
    /\ ~IsExpired(handle[w].stored, now)
    /\ DbUpdateOk(w, handle[w].id, rows[handle[w].id], FALSE,
                  handle[w].stored)

HandleTx(w, new_task) ==
    OpenTx(handle[w].id, rows[handle[w].id], new_task, TRUE)

\* run_task: new_task_process, then the pinger is spawned and the handler run
RunTask(w) ==
    /\ pc[w] = "claimed"
    /\ IF TaskKindOf(handle[w].task.kind) = "Unknown"
       THEN /\ pc' = [pc EXCEPT ![w] = "final"]
            /\ hres' = [hres EXCEPT ![w] = "err"]
            /\ UNCHANGED pinger
       ELSE /\ pc' = [pc EXCEPT ![w] = "handler"]
            /\ pinger' = [pinger EXCEPT ![w] =
                   [pc |-> "sleep", left |-> PingPeriodSecs * Res,
                    failed |-> FALSE]]
            /\ UNCHANGED hres
    /\ UNCHANGED <<ovars, cvars, pvars, svars, now, rows, events, tx, handle, mu, token, hops, commits,
                   ext>>

\* the handler calls task.set_state(state)
HandlerSetState(w, s) ==
    /\ pc[w] = "handler" /\ mu[w] = "free" /\ hops[w] < MaxHandlerOps
    /\ s # handle[w].task.state
    /\ hops' = [hops EXCEPT ![w] = @ + 1]
    /\ LET new_task == [handle[w].task EXCEPT !.state = s]
       IN IF IsValid(new_task) /\ HandleUpdateOk(w)
          THEN /\ tx' = [tx EXCEPT ![w] = HandleTx(w, new_task)]
               /\ mu' = [mu EXCEPT ![w] = "handler"]
          ELSE UNCHANGED <<tx, mu>>
    /\ UNCHANGED <<ovars, cvars, pvars, svars, now, rows, events, pc, handle, pinger, token, hres,
                   commits, ext>>

\* the handler calls task.set_deferred_state(state)
HandlerSetDeferredState(w, s) ==
    /\ pc[w] = "handler" /\ mu[w] = "free" /\ hops[w] < MaxHandlerOps
    /\ s # handle[w].task.state
    /\ hops' = [hops EXCEPT ![w] = @ + 1]
    /\ handle' = [handle EXCEPT ![w].task.state = s]
    /\ UNCHANGED <<ovars, cvars, pvars, svars, now, rows, events, pc, tx, mu, pinger, token, hres,
                   commits, ext>>

\* task_impl.run returns; run_task cancels the token
HandlerReturn(w, r) ==
    /\ pc[w] = "handler" /\ mu[w] # "handler"
    /\ hres' = [hres EXCEPT ![w] = r]
    /\ token' = [token EXCEPT ![w] = TRUE]
    /\ pc' = [pc EXCEPT ![w] = "join"]
    /\ UNCHANGED <<ovars, cvars, pvars, svars, now, rows, events, tx, handle, mu, pinger, hops, commits,
                   ext>>

\* a run_task that goes on to set_status without awaiting the pinger
JoinPingerNoWait(w) ==
    /\ pc[w] = "join"
    /\ pc' = [pc EXCEPT ![w] = "final"]
    /\ UNCHANGED <<ovars, cvars, pvars, svars, now, rows, events, tx, handle, mu, pinger, token, hres,
                   hops, commits, ext>>

\* pinger_task.await returns once the pinger task has ended
JoinPinger(w) ==
    /\ pc[w] = "join" /\ pinger[w].pc \in {"done", "expired"}
    /\ pc' = [pc EXCEPT ![w] = "final"]
    /\ UNCHANGED <<ovars, cvars, pvars, svars, now, rows, events, tx, handle, mu, pinger, token, hres,
                   hops, commits, ext>>

\* a run_task that reports every finished handler as Succeeded
TerminalStatusAlwaysSucceeded(r) == Succeeded

\* run_task's match on the handler's result: Ok(()) => Succeeded,
\* Err(err) => Failed (also when new_task_process returned the Err)
TerminalStatus(r) == IF r = "ok" THEN Succeeded ELSE Failed

\* a set_status that writes the new status to the task mirror before the
\* update is known to have succeeded
SetStatusAssignsFirst(w) ==
    /\ pc[w] = "final" /\ mu[w] = "free"
    /\ LET status == TerminalStatus(hres[w])
           new_task == [handle[w].task EXCEPT !.status = status]
       IN /\ handle' = [handle EXCEPT ![w].task = new_task]
          /\ IF IsValid(new_task) /\ HandleUpdateOk(w)
             THEN /\ tx' = [tx EXCEPT ![w] = HandleTx(w, new_task)]
                  /\ mu' = [mu EXCEPT ![w] = "worker"]
                  /\ pc' = [pc EXCEPT ![w] = "status"]
             ELSE /\ pc' = [pc EXCEPT ![w] = "status_err"]
                  /\ UNCHANGED <<tx, mu>>
    /\ UNCHANGED <<ovars, cvars, pvars, svars, now, rows, events, pinger, token, hres, hops,
                   commits, ext>>

\* task.set_status(Succeeded | Failed) up to the UPDATE statement; on error
\* run_task logs it and returns
SetStatus(w) ==
    /\ pc[w] = "final" /\ mu[w] = "free"
    /\ LET status == TerminalStatus(hres[w])
           new_task == [handle[w].task EXCEPT !.status = status]
       IN IF IsValid(new_task) /\ HandleUpdateOk(w)
          THEN /\ tx' = [tx EXCEPT ![w] = HandleTx(w, new_task)]
               /\ mu' = [mu EXCEPT ![w] = "worker"]
               /\ pc' = [pc EXCEPT ![w] = "status"]
          ELSE /\ pc' = [pc EXCEPT ![w] = "status_err"]
               /\ UNCHANGED <<tx, mu>>
    /\ UNCHANGED <<ovars, cvars, pvars, svars, now, rows, events, handle, pinger, token, hres, hops,
                   commits, ext>>

\* run_task has returned: run_worker logs the result and loops
TaskDone(w) ==
    /\ pc[w] \in {"status_ok", "status_err"}
    /\ pc' = [pc EXCEPT ![w] = "loop"]
    /\ ResetRun(w)
    /\ UNCHANGED <<ovars, cvars, pvars, svars, now, rows, events, tx, mu, commits, ext>>

\* ------------------------------------------------- shutdown and panics
\* the ctrl_c task of invoker_main cancels the process-level token
CancelShutdown ==
    /\ ~shutdown /\ runres = "running"
    /\ shutdown' = TRUE
    /\ UNCHANGED <<ovars, tvars, cvars, svars, runres>>

\* run_worker breaks out of its loop: select! takes the shutdown branch
\* (dropping take_task and its transaction), or the backoff's timeout
\* resolves with the cancellation. A take_task dropped at tx.commit().await
\* leaves a transaction that is rolled back, or, its COMMIT being already
\* on its way to the database, one that commits with nobody to return to
WorkerExit(w) ==
    /\ shutdown
    /\ pc[w] \in {"loop", "selected", "updated", "take_none", "take_err"}
    /\ pc' = [pc EXCEPT ![w] = "exited"]
    /\ \/ /\ tx' = [tx EXCEPT ![w] = NoTx]
          /\ UNCHANGED <<rows, events, commits>>
       \/ /\ pc[w] = "updated"
          /\ rows' = CommitRows(w)
          /\ events' = CommitEvents(w)
          /\ commits' = [commits EXCEPT ![tx[w].id] = @ + 1]
          /\ tx' = CommitTx(w, tx[w].id)
    /\ UNCHANGED <<ovars, cvars, pvars, svars, now, handle, mu, pinger, token, hres, hops, ext>>

\* the handler panics (todo!()): the worker's task ends with a JoinError,
\* `res??` returns it from Invoker::run, the dropped JoinSet aborts the other
\* workers and main's unwrap ends the process with its pingers and
\* connections
HandlerPanic(w) ==
    /\ pc[w] = "handler" /\ mu[w] # "handler"
    /\ pc' = [v \in Workers |->
                 IF v = w THEN "panicked"
                 ELSE IF pc[v] = "exited" THEN "exited" ELSE "aborted"]
    /\ tx' = [v \in Workers |-> NoTx]
    /\ mu' = [v \in Workers |-> "free"]
    /\ pinger' = [v \in Workers |-> NoPinger]
    /\ runres' = "err"
    /\ UNCHANGED <<ovars, cvars, svars, now, rows, events, handle, token, hres, hops, commits,
                   ext, shutdown>>

\* join_next has returned Ok(Ok(())) for every worker: Invoker::run returns
\* Ok(())
RunReturns ==
    /\ runres = "running"
    /\ \A w \in Workers : pc[w] = "exited"
    /\ runres' = "ok"
    /\ UNCHANGED <<ovars, tvars, cvars, svars, shutdown>>

\* ---------------------------------------------------------------- pinger
\* timeout(1 s, shutdown.cancelled()) resolves with the cancellation
PingerCancelled(w) ==
    /\ pinger[w].pc = "sleep" /\ token[w]
    /\ pinger' = [pinger EXCEPT ![w].pc = "done", ![w].left = 0]
    /\ UNCHANGED <<ovars, cvars, pvars, svars, now, rows, events, pc, tx, handle, mu, token, hres, hops,
                   commits, ext>>

\* timeout(1 s, ...) elapses
PingerWake(w) ==
    /\ pinger[w].pc = "sleep" /\ ~token[w] /\ pinger[w].left = 0
    /\ pinger' = [pinger EXCEPT ![w].pc = "chk0"]
    /\ UNCHANGED <<ovars, cvars, pvars, svars, now, rows, events, pc, tx, handle, mu, token, hres, hops,
                   commits, ext>>

\* a pinger that goes on after finding the lease expired
PingerIgnoreExpired(w) ==
    /\ pinger[w].pc = "chk0" /\ mu[w] = "free"
    /\ pinger' = [pinger EXCEPT ![w].pc = "chk15"]
    /\ UNCHANGED <<ovars, cvars, pvars, svars, now, rows, events, pc, tx, handle, mu, token, hres, hops,
                   commits, ext>>

\* if self.is_expires_after(Duration::ZERO) { shutdown.cancel(); return; }
PingerCheckExpired(w) ==
    /\ pinger[w].pc = "chk0" /\ mu[w] = "free"
    /\ IF IsExpired(handle[w].task, now)
       THEN /\ token' = [token EXCEPT ![w] = TRUE]
            /\ pinger' = [pinger EXCEPT ![w].pc = "expired"]
       ELSE /\ pinger' = [pinger EXCEPT ![w].pc = "chk15"]
            /\ UNCHANGED token
    /\ UNCHANGED <<ovars, cvars, pvars, svars, now, rows, events, pc, tx, handle, mu, hres, hops,
                   commits, ext>>

\* a pinger that renews only a lease that has already run out
PingerCheckNoMargin(w) ==
    /\ pinger[w].pc = "chk15" /\ mu[w] = "free"
    /\ IF ~IsExpired(handle[w].task, now)
       THEN pinger' = [pinger EXCEPT ![w].pc = "sleep",
                                     ![w].left = PingPeriodSecs * Res]
       ELSE pinger' = [pinger EXCEPT ![w].pc = "call"]
    /\ UNCHANGED <<ovars, cvars, pvars, svars, now, rows, events, pc, tx, handle, mu, token, hres, hops,
                   commits, ext>>

\* if !self.is_expires_after(15 s) { continue; }
PingerCheckMargin(w) ==
    /\ pinger[w].pc = "chk15" /\ mu[w] = "free"
    /\ IF ~IsExpired(handle[w].task, now + PingMarginSecs * Res)
       THEN pinger' = [pinger EXCEPT ![w].pc = "sleep",
                                     ![w].left = PingPeriodSecs * Res]
       ELSE pinger' = [pinger EXCEPT ![w].pc = "call"]
    /\ UNCHANGED <<ovars, cvars, pvars, svars, now, rows, events, pc, tx, handle, mu, token, hres, hops,
                   commits, ext>>

\* self.ping(30 s) up to the UPDATE statement; an error is logged and the
\* loop continues
Ping(w) ==
    /\ pinger[w].pc = "call" /\ mu[w] = "free"
    /\ LET new_task == [handle[w].task EXCEPT
                            !.expire = Some(now + PingLeaseSecs * Res)]
       IN IF IsValid(new_task) /\ HandleUpdateOk(w)
          THEN /\ tx' = [tx EXCEPT ![w] = HandleTx(w, new_task)]
               /\ mu' = [mu EXCEPT ![w] = "pinger"]
               /\ pinger' = [pinger EXCEPT ![w].pc = "ping"]
          ELSE /\ pinger' = [pinger EXCEPT ![w].pc = "sleep",
                                           ![w].left = PingPeriodSecs * Res,
                                           ![w].failed = TRUE]
               /\ UNCHANGED <<tx, mu>>
    /\ UNCHANGED <<ovars, cvars, pvars, svars, now, rows, events, pc, handle, token, hres, hops, commits,
                   ext>>

\* the rest of Task::update and of its caller: commit, *stored_task =
\* event.into_object(), *task = that object, both mutexes released
HandleCommit(w) ==
    /\ mu[w] # "free"
    /\ rows' = CommitRows(w)
    /\ events' = CommitEvents(w)
    /\ tx' = CommitTx(w, tx[w].id)
    /\ mu' = [mu EXCEPT ![w] = "free"]
    /\ handle' = [handle EXCEPT ![w].task = CommittedObject(w),
                                ![w].stored = CommittedObject(w)]
    /\ pc' = [pc EXCEPT ![w] = IF mu[w] = "worker" THEN "status_ok" ELSE @]
    /\ pinger' = [pinger EXCEPT ![w] =
           IF mu[w] = "pinger"
           THEN [@ EXCEPT !.pc = "sleep", !.left = PingPeriodSecs * Res]
           ELSE @]
    /\ UNCHANGED <<ovars, cvars, pvars, svars, now, token, hres, hops, commits, ext>>

\* ------------------------------------------------------------ environment
\* another client of the store rewrites a task's expire_time with
\* ObjectStore::update (as tests/stores.rs does with Instant::now())
ExternalUpdate(t) ==
    /\ ext < MaxExternal
    /\ ~LockedByOther(0, t)
    /\ rows' = [rows EXCEPT ![t].expire = OptToValue(Some(now))]
    /\ events' = [events EXCEPT ![t] = Append(@, "Update")]
    /\ tx' = CommitTx(0, t)
    /\ ext' = ext + 1
    /\ UNCHANGED <<ovars, cvars, pvars, svars, now, pc, handle, mu, pinger, token, hres, hops, commits>>

\* a timestamp seen from a time origin one second later
ShiftOpt(o, unit) == {IF v < 0 THEN v ELSE v - unit : v \in o}
ShiftRow(row) == [row EXCEPT !.expire = ShiftOpt(@, 1)]
ShiftTask(task) == [task EXCEPT !.expire = ShiftOpt(@, Res)]
ShiftTx(t) ==
    IF t.id = 0 THEN t
    ELSE [t EXCEPT !.snap = ShiftRow(@), !.new = ShiftTask(@)]
ShiftHandle(h) ==
    IF h.id = 0 THEN h
    ELSE [h EXCEPT !.task = ShiftTask(@), !.stored = ShiftTask(@)]

\* one clock tick; sleeping timers run down
Elapse ==
    /\ pinger' = [w \in Workers |->
           IF pinger[w].left > 0 THEN [pinger[w] EXCEPT !.left = @ - 1]
           ELSE pinger[w]]
    /\ IF now + 1 < Res
       THEN /\ now' = now + 1
            /\ UNCHANGED <<rows, tx, handle>>
       ELSE /\ now' = 0
            /\ rows' = [t \in TaskIds |-> ShiftRow(rows[t])]
            /\ tx' = [w \in Workers |-> ShiftTx(tx[w])]
            /\ handle' = [w \in Workers |-> ShiftHandle(handle[w])]
    /\ UNCHANGED <<ovars, cvars, pvars, svars, events, pc, mu, token, hres, hops, commits, ext>>

\* the tasks a worker can ever claim
Claimable == {t \in TaskIds : TaskKindOf(rows[t].kind) # "Unknown"}

\* the clock is explored while no task has more than MaxEvents events, in
\* tables where the workers can hold one lease at a time (leases on
\* different rows share no state; they are explored without the clock)
ClockRuns ==
    /\ \A t \in TaskIds : Len(events[t]) <= MaxEvents
    /\ \A t, u \in Claimable : t = u

\* time passes; a timeout may fire late
Tick ==
    /\ ClockRuns
    /\ Elapse

\* ---------------------------------------------------------- cache manager
\* An Object is an Arc<ObjectInner>; the object a shared future produced has
\* the future's id.  Its handles are the cache entry, the handles callers
\* hold, and the output kept inside the Shared future while clones of that
\* future are still awaited.
CacheKeys == {cache[i].key : i \in 1..Len(cache)}
CacheObj(k) == (CHOOSE i \in 1..Len(cache) : cache[i].key = k)
CacheAt(k) == cache[CacheObj(k)].obj
CacheWithout(k) == SelectSeq(cache, LAMBDA e : e.key # k)

SharedOutput(o) ==
    fut[o].st = "done" /\ fut[o].res = "ok" /\ \E c \in Callers : cfut[c] = o

\* Arc::strong_count of object o
RefCount(o) ==
    Cardinality({i \in 1..Len(cache) : cache[i].obj = o})
    + Cardinality({c \in Callers : held[c] = o})
    + (IF SharedOutput(o) THEN 1 ELSE 0)

\* Drop for Object: ObjectInner::drop calls free when the last handle goes.
\* `drops` is the set of objects losing one handle each in this step.
DropHandles(drops) ==
    freed' = [o \in DOMAIN freed |->
                 IF o \in drops /\ RefCount(o) = 1 THEN freed[o] + 1
                 ELSE freed[o]]

\* LruCache::get: lru.get(key).cloned(), which makes key the most recent
CacheGet(k) == Append(CacheWithout(k), [key |-> k, obj |-> CacheAt(k)])

\* lru.put(key, value): replaces the value of a present key, else evicts the
\* least recently used entry of a full cache
CachePut(k, o) ==
    LET kept == IF k \in CacheKeys THEN CacheWithout(k)
                ELSE IF Len(cache) >= CacheCap THEN Tail(cache)
                ELSE cache
    IN Append(kept, [key |-> k, obj |-> o])
\* the entries lru.put drops
PutDropped(k) ==
    IF k \in CacheKeys THEN {[key |-> k, obj |-> CacheAt(k)]}
    ELSE IF Len(cache) >= CacheCap THEN {Head(cache)}
    ELSE {}

\* manager.load(key) is called
CallLoad(c, k) ==
    /\ cpc[c] = "idle"
    /\ cpc' = [cpc EXCEPT ![c] = "get1"]
    /\ ckey' = [ckey EXCEPT ![c] = k]
    /\ UNCHANGED <<ovars, tvars, pvars, svars, cache, futs, fut, readers, cfut, held, freed, loads,
                   plain>>

\* manager.reload(key) is called
CallReload(c, k) ==
    /\ cpc[c] = "idle"
    /\ cpc' = [cpc EXCEPT ![c] = "reload"]
    /\ ckey' = [ckey EXCEPT ![c] = k]
    /\ plain' = [plain EXCEPT ![k] = FALSE]
    /\ UNCHANGED <<ovars, tvars, pvars, svars, cache, futs, fut, readers, cfut, held, freed, loads>>

\* a cache hit: the caller returns with a clone of the entry
Hit(c) ==
    /\ cache' = CacheGet(ckey[c])
    /\ held' = [held EXCEPT ![c] = CacheAt(ckey[c])]
    /\ cpc' = [cpc EXCEPT ![c] = "have"]

\* load: the first cache.get
Get1(c) ==
    /\ cpc[c] = "get1"
    /\ IF ckey[c] \in CacheKeys
       THEN Hit(c)
       ELSE /\ cpc' = [cpc EXCEPT ![c] = "rlock"]
            /\ UNCHANGED <<cache, held>>
    /\ UNCHANGED <<ovars, tvars, pvars, svars, futs, fut, readers, ckey, cfut, freed, loads, plain>>

\* load: futures.read().await
ReadLock(c) ==
    /\ cpc[c] = "rlock"
    /\ readers' = readers \cup {c}
    /\ cpc' = [cpc EXCEPT ![c] = "get2"]
    /\ UNCHANGED <<ovars, tvars, pvars, svars, cache, futs, fut, ckey, cfut, held, freed, loads,
                   plain>>

\* load: the second cache.get, under the read guard
Get2(c) ==
    /\ cpc[c] = "get2"
    /\ IF ckey[c] \in CacheKeys
       THEN /\ Hit(c)
            /\ readers' = readers \ {c}
       ELSE /\ cpc' = [cpc EXCEPT ![c] = "fget"]
            /\ UNCHANGED <<cache, held, readers>>
    /\ UNCHANGED <<ovars, tvars, pvars, svars, futs, fut, ckey, cfut, freed, loads, plain>>

\* load: futures.get(key) under the read guard; the guard is dropped either
\* way, and without a future in flight the caller goes on to reload
FuturesGet(c) ==
    /\ cpc[c] = "fget"
    /\ readers' = readers \ {c}
    /\ IF futs[ckey[c]] # 0
       THEN /\ cfut' = [cfut EXCEPT ![c] = futs[ckey[c]]]
            /\ cpc' = [cpc EXCEPT ![c] = "await"]
       ELSE /\ cpc' = [cpc EXCEPT ![c] = "reload"]
            /\ UNCHANGED cfut
    /\ UNCHANGED <<ovars, tvars, pvars, svars, cache, futs, fut, ckey, held, freed, loads, plain>>

\* a reload that never finds the future in flight
InFlightIgnored(k) == 0

\* reload: futures.get(key) under the write guard
InFlight(k) == futs[k]

\* reload: under futures.write(), clone the future in flight or insert the
\* one load_future builds
Reload(c) ==
    /\ cpc[c] = "reload"
    /\ readers = {}
    /\ IF InFlight(ckey[c]) # 0
       THEN /\ cfut' = [cfut EXCEPT ![c] = InFlight(ckey[c])]
            /\ UNCHANGED <<futs, fut>>
       ELSE /\ Len(fut) < MaxLoads
            /\ fut' = Append(fut, [key |-> ckey[c], st |-> "idle",
                                   res |-> "none"])
            /\ futs' = [futs EXCEPT ![ckey[c]] = Len(fut) + 1]
            /\ cfut' = [cfut EXCEPT ![c] = Len(fut) + 1]
    /\ cpc' = [cpc EXCEPT ![c] = "await"]
    /\ UNCHANGED <<ovars, tvars, pvars, svars, cache, readers, ckey, held, freed, loads, plain>>

\* a load that calls store.load with a guard of the futures lock in hand
StartLoadUnderGuard(c) ==
    /\ cpc[c] = "await"
    /\ fut[cfut[c]].st = "idle"
    /\ fut' = [fut EXCEPT ![cfut[c]].st = "running"]
    /\ loads' = [loads EXCEPT ![fut[cfut[c]].key] = @ + 1]
    /\ cpc' = [cpc EXCEPT ![c] = "loading"]
    /\ readers' = readers \cup {c}
    /\ UNCHANGED <<ovars, tvars, pvars, svars, cache, futs, ckey, cfut, held, freed, plain>>

\* the first poll of the shared future runs it: store.load(&key) is called
StartLoad(c) ==
    /\ cpc[c] = "await"
    /\ fut[cfut[c]].st = "idle"
    /\ fut' = [fut EXCEPT ![cfut[c]].st = "running"]
    /\ loads' = [loads EXCEPT ![fut[cfut[c]].key] = @ + 1]
    /\ cpc' = [cpc EXCEPT ![c] = "loading"]
    /\ UNCHANGED <<ovars, tvars, pvars, svars, cache, futs, readers, ckey, cfut, held, freed, plain>>

\* store.load returns Ok or Err
LoadReturns(c, r) ==
    /\ cpc[c] = "loading"
    /\ fut' = [fut EXCEPT ![cfut[c]].st = "loaded", ![cfut[c]].res = r]
    /\ cpc' = [cpc EXCEPT ![c] = "finish"]
    /\ UNCHANGED <<ovars, tvars, pvars, svars, cache, futs, readers, ckey, cfut, held, freed, loads,
                   plain>>

\* a load_future that removes its entry only when the load succeeded
FuturesRemoveOnOk(k, r) == IF r = "ok" THEN [futs EXCEPT ![k] = 0] ELSE futs

\* futures.remove(&key), before the result of store.load is looked at
FuturesRemove(k, r) == [futs EXCEPT ![k] = 0]

\* the rest of load_future's block under futures.blocking_write():
\* futures.remove(&key), and on Ok the Object is built and cache.set; the
\* poll returns the output to the caller that ran it
FinishLoad(c) ==
    /\ cpc[c] = "finish"
    /\ readers = {}
    /\ LET f == cfut[c]
           k == fut[f].key
       IN /\ futs' = FuturesRemove(k, fut[f].res)
          /\ fut' = [fut EXCEPT ![f].st = "done"]
          /\ cfut' = [cfut EXCEPT ![c] = 0]
          /\ IF fut[f].res = "ok"
             THEN /\ cache' = CachePut(k, f)
                  /\ DropHandles({e.obj : e \in PutDropped(k)})
                  /\ held' = [held EXCEPT ![c] = f]
                  /\ cpc' = [cpc EXCEPT ![c] = "have"]
                  /\ plain' = [j \in Keys |->
                        plain[j] /\ \A e \in PutDropped(k) : e.key # j \/ j = k]
             ELSE /\ cpc' = [cpc EXCEPT ![c] = "idle"]
                  /\ plain' = [plain EXCEPT ![k] = FALSE]
                  /\ UNCHANGED <<cache, held, freed>>
    /\ UNCHANGED <<ovars, tvars, pvars, svars, readers, ckey, loads>>

\* a later poll of a completed shared future: the output is cloned, or moved
\* out by the last clone of the future
Collect(c) ==
    /\ cpc[c] = "await"
    /\ fut[cfut[c]].st = "done"
    /\ cfut' = [cfut EXCEPT ![c] = 0]
    /\ IF fut[cfut[c]].res = "ok"
       THEN /\ held' = [held EXCEPT ![c] = cfut[c]]
            /\ cpc' = [cpc EXCEPT ![c] = "have"]
       ELSE /\ cpc' = [cpc EXCEPT ![c] = "idle"]
            /\ UNCHANGED held
    /\ UNCHANGED <<ovars, tvars, pvars, svars, cache, futs, fut, readers, ckey, freed, loads, plain>>

\* a delete that frees the value it removes
DeleteFreeing(c, k) ==
    /\ cpc[c] = "idle"
    /\ k \in CacheKeys
    /\ cache' = CacheWithout(k)
    /\ freed' = [freed EXCEPT ![CacheAt(k)] = @ + 1]
    /\ plain' = [plain EXCEPT ![k] = FALSE]
    /\ UNCHANGED <<ovars, tvars, pvars, svars, futs, fut, readers, cpc, ckey, cfut, held, loads>>

\* manager.delete(key): cache.remove(key) = lru.pop(key); the entry's handle
\* is returned to the caller
Delete(c, k) ==
    /\ cpc[c] = "idle"
    /\ k \in CacheKeys
    /\ cache' = CacheWithout(k)
    /\ held' = [held EXCEPT ![c] = CacheAt(k)]
    /\ cpc' = [cpc EXCEPT ![c] = "have"]
    /\ plain' = [plain EXCEPT ![k] = FALSE]
    /\ UNCHANGED <<ovars, tvars, pvars, svars, futs, fut, readers, ckey, cfut, freed, loads>>

\* the caller drops the handle it holds
DropObject(c) ==
    /\ cpc[c] = "have"
    /\ DropHandles({held[c]})
    /\ held' = [held EXCEPT ![c] = 0]
    /\ cpc' = [cpc EXCEPT ![c] = "idle"]
    /\ UNCHANGED <<ovars, tvars, pvars, svars, cache, futs, fut, readers, ckey, cfut, loads, plain>>

\* a row as the tables hold it before any worker has touched it
InitRow(k) ==
    [kind |-> k, config |-> 0, status |-> Queued, state |-> 0,
     expire |-> None]

\* ------------------------------------------------ PersistentStore<O>
\* the store of an object table and its event table, used by NumClients
\* callers that pass no transaction of their own (ctx.tx = None)
NoOp == [pc |-> "idle", op |-> "none", id |-> 0, row |-> <<>>, pred |-> None]

\* the object values a caller passes: the id it carries and the columns
StoreInputs ==
    {FromRow(i, [InitRow(k) EXCEPT !.state = s]) :
        i \in ObjectIds, k \in KindValues, s \in StateValues}

\* a predicate of update_where: column("state").equal(s); None is
\* Predicate::Bool(true), the predicate of update
PredicateHolds(row, pred) == \A s \in pred : row.state = s

\* WHERE id = $id AND predicate finds a row
StoreMatches(id, pred) ==
    id \in DOMAIN table /\ PredicateHolds(table[id], pred)

\* no transaction of the caller's own
NoCtx == [st |-> "none", writes |-> <<>>, dels |-> {}, evs |-> <<>>]

\* the rows caller c's own transaction has written and not yet committed
Touched(c) == DOMAIN ctx[c].writes \cup ctx[c].dels

\* another caller's transaction stands in the way of a write by caller c:
\* it holds the row, or (SQLite) it holds the database's write lock
StoreBusy(c, id) ==
    \E d \in Clients \ {c} :
        \/ /\ sop[d].pc \in {"obj", "ev"}
           /\ backend = "sqlite" \/ sop[d].id = id
        \/ /\ Touched(d) # {}
           /\ backend = "sqlite" \/ id \in Touched(d)

\* the ids the database may give to an inserted row.  "id" INTEGER PRIMARY
\* KEY of SQLite: one more than the largest id in the table; bigserial of
\* Postgres: a value of the sequence, larger than every value handed out
MaxOf(S) == IF S = {} THEN 0 ELSE CHOOSE m \in S : \A n \in S : n <= m
HandedOut ==
    {log[i].id : i \in DOMAIN log}
        \cup {sop[d].id : d \in {e \in Clients : sop[e].op = "create"}}
        \cup UNION {Touched(d) : d \in Clients}
NewIds ==
    IF backend = "sqlite"
    THEN {MaxOf(DOMAIN table) + 1} \cap ObjectIds
    ELSE {i \in ObjectIds : i > MaxOf(HandedOut)}

\* the event kind a store method records
EventKindOf(op) ==
    IF op = "create" THEN "Create"
    ELSE IF op = "delete" THEN "Delete"
    ELSE "Update"

\* the object table with the statement of caller c's transaction applied
WithObject(c) ==
    IF sop[c].op = "delete"
    THEN [i \in DOMAIN table \ {sop[c].id} |-> table[i]]
    ELSE [i \in DOMAIN table \cup {sop[c].id} |->
             IF i = sop[c].id THEN sop[c].row ELSE table[i]]

\* a database without transactions: the object statement stays when the
\* operation fails later
RolledBackKeepsObject(c) == WithObject(c)

\* the committed object table after caller c's transaction is dropped
\* without commit
RolledBack(c) == table

\* the caller starts a method: its arguments are recorded
StartOp(c, op, id, row, pred, to) ==
    sop' = [sop EXCEPT ![c] =
               [pc |-> to, op |-> op, id |-> id, row |-> row, pred |-> pred]]

\* create: begin, then create_object: assert!(object.is_valid()) and the
\* INSERT ... RETURNING without the id column
StoreCreate(c, o) ==
    /\ sop[c].pc = "idle" /\ ctx[c].st = "none" /\ Len(log) < MaxLog
    /\ IF ~IsValid(o)
       THEN StartOp(c, "create", 0, IntoRow(o), None, "panic")
       ELSE IF StoreBusy(c, 0)
       THEN StartOp(c, "create", 0, IntoRow(o), None, "err")
       ELSE \E id \in NewIds :
                StartOp(c, "create", id, IntoRow(o), None, "obj")
    /\ UNCHANGED <<ovars, tvars, cvars, pvars, backend, table, log, ctx>>

\* update_where (update is update_where with no predicate): begin, then
\* update_object: assert!(object.is_valid()) and UPDATE ... WHERE id = $id
\* AND predicate RETURNING; no row returned is Err("empty query result")
StoreUpdateWhere(c, o, pred, op) ==
    /\ sop[c].pc = "idle" /\ ctx[c].st = "none" /\ Len(log) < MaxLog
    /\ IF ~IsValid(o)
       THEN StartOp(c, op, o.id, IntoRow(o), pred, "panic")
       ELSE IF StoreMatches(o.id, pred) /\ ~StoreBusy(c, o.id)
       THEN StartOp(c, op, o.id, IntoRow(o), pred, "obj")
       ELSE StartOp(c, op, o.id, IntoRow(o), pred, "err")
    /\ UNCHANGED <<ovars, tvars, cvars, pvars, backend, table, log, ctx>>

StoreUpdate(c, o) == StoreUpdateWhere(c, o, None, "update")

\* delete: begin, then delete_object: DELETE ... WHERE id = $id must affect
\* one row
StoreDelete(c, id) ==
    /\ sop[c].pc = "idle" /\ ctx[c].st = "none" /\ Len(log) < MaxLog
    /\ IF id \in DOMAIN table /\ ~StoreBusy(c, id)
       THEN StartOp(c, "delete", id, <<>>, None, "obj")
       ELSE StartOp(c, "delete", id, <<>>, None, "err")
    /\ UNCHANGED <<ovars, tvars, cvars, pvars, backend, table, log, ctx>>

\* create_event: the INSERT into the event table inside the transaction
CreateEvent(c) ==
    /\ sop[c].pc = "obj"
    /\ sop' = [sop EXCEPT ![c].pc = "ev"]
    /\ UNCHANGED <<ovars, tvars, cvars, pvars, backend, table, log, ctx>>

\* tx.commit(): the object statement and the event row become visible
StoreCommit(c) ==
    /\ sop[c].pc = "ev"
    /\ table' = WithObject(c)
    /\ log' = Append(log, [kind |-> EventKindOf(sop[c].op), id |-> sop[c].id])
    /\ sop' = [sop EXCEPT ![c].pc = "ok"]
    /\ UNCHANGED <<ovars, tvars, cvars, pvars, backend, ctx>>

\* a statement or the commit fails: `?` returns the error and the dropped
\* transaction rolls back
StoreRollback(c) ==
    /\ sop[c].pc \in {"obj", "ev"}
    /\ table' = RolledBack(c)
    /\ sop' = [sop EXCEPT ![c].pc = "err"]
    /\ UNCHANGED <<ovars, tvars, cvars, pvars, backend, log, ctx>>

\* the method has returned Ok or Err to its caller
StoreReturn(c) ==
    /\ sop[c].pc \in {"ok", "err", "joined"}
    /\ sop' = [sop EXCEPT ![c] = NoOp]
    /\ UNCHANGED <<ovars, tvars, cvars, pvars, backend, table, log, ctx>>

\* ---- the same methods with ctx.tx set: the caller has begun the
\* transaction and ends it itself
\* the object table as caller c's transaction sees it: the committed rows
\* under its own writes
View(c) ==
    [i \in (DOMAIN table \ ctx[c].dels) \cup DOMAIN ctx[c].writes |->
        IF i \in DOMAIN ctx[c].writes THEN ctx[c].writes[i] ELSE table[i]]

\* the ids the database may give to a row inserted in c's transaction
NewIdsIn(c) ==
    IF backend = "sqlite"
    THEN {MaxOf(DOMAIN View(c)) + 1} \cap ObjectIds
    ELSE {i \in ObjectIds : i > MaxOf(HandedOut)}

\* caller c's transaction with the object statement and the event of a
\* method added to it
Joined(c, op, id, row) ==
    [ctx[c] EXCEPT
        !.writes = IF op = "delete"
                   THEN [i \in DOMAIN @ \ {id} |-> @[i]]
                   ELSE [i \in DOMAIN @ \cup {id} |->
                            IF i = id THEN row ELSE @[i]],
        !.dels = IF op = "delete" THEN @ \cup ({id} \cap DOMAIN table)
                 ELSE @ \ {id},
        !.evs = Append(@, [kind |-> EventKindOf(op), id |-> id])]

\* a store method that ends the transaction it was handed: it commits
JoinOpCommits(c, op, id, row, pred, ok) ==
    /\ StartOp(c, op, id, row, pred, IF ok THEN "joined" ELSE "err")
    /\ IF ok
       THEN /\ ctx' = [ctx EXCEPT ![c] = NoCtx]
            /\ table' = [i \in (DOMAIN View(c) \ {id})
                               \cup (IF op = "delete" THEN {} ELSE {id}) |->
                            IF i = id THEN row ELSE View(c)[i]]
            /\ log' = log \o Joined(c, op, id, row).evs
       ELSE /\ ctx' = [ctx EXCEPT ![c].st = "failed"]
            /\ UNCHANGED <<table, log>>

\* `if let Some(tx) = ctx.tx.take()`: the object statement and create_event
\* run on the caller's transaction and the method returns, Ok(event) or the
\* error of the statement that failed; the transaction is left to the caller
JoinOp(c, op, id, row, pred, ok) ==
    /\ StartOp(c, op, id, row, pred, IF ok THEN "joined" ELSE "err")
    /\ ctx' = [ctx EXCEPT ![c] =
                  IF ok THEN Joined(c, op, id, row)
                  ELSE [@ EXCEPT !.st = "failed"]]
    /\ UNCHANGED <<table, log>>

\* assert!(object.is_valid()) fails inside the caller's transaction: the
\* panic unwinds through the caller, whose transaction is dropped
JoinPanic(c, op, id, row, pred) ==
    /\ StartOp(c, op, id, row, pred, "panic")
    /\ ctx' = [ctx EXCEPT ![c] = NoCtx]
    /\ UNCHANGED <<table, log>>

\* db.transaction(options) by the caller
BeginTx(c) ==
    /\ sop[c].pc = "idle" /\ ctx[c].st = "none"
    /\ ctx' = [ctx EXCEPT ![c].st = "open"]
    /\ UNCHANGED <<ovars, tvars, cvars, pvars, backend, table, log, sop>>

\* the caller may call a method on its open transaction
MayJoin(c) ==
    /\ sop[c].pc = "idle" /\ ctx[c].st = "open"
    /\ Len(ctx[c].evs) < MaxTxOps
    /\ Len(log) + Len(ctx[c].evs) < MaxLog

\* create(ctx.with_tx(&mut tx), object)
StoreCreateIn(c, o) ==
    /\ MayJoin(c)
    /\ IF ~IsValid(o)
       THEN JoinPanic(c, "create", 0, IntoRow(o), None)
       ELSE IF StoreBusy(c, 0)
       THEN JoinOp(c, "create", 0, IntoRow(o), None, FALSE)
       ELSE \E id \in NewIdsIn(c) :
                JoinOp(c, "create", id, IntoRow(o), None, TRUE)
    /\ UNCHANGED <<ovars, tvars, cvars, pvars, backend>>

\* update(ctx.with_tx(&mut tx), object) and update_where(.., predicate)
StoreUpdateWhereIn(c, o, pred, op) ==
    /\ MayJoin(c)
    /\ IF ~IsValid(o)
       THEN JoinPanic(c, op, o.id, IntoRow(o), pred)
       ELSE JoinOp(c, op, o.id, IntoRow(o), pred,
                   /\ o.id \in DOMAIN View(c)
                   /\ PredicateHolds(View(c)[o.id], pred)
                   /\ ~StoreBusy(c, o.id))
    /\ UNCHANGED <<ovars, tvars, cvars, pvars, backend>>

\* delete(ctx.with_tx(&mut tx), id)
StoreDeleteIn(c, id) ==
    /\ MayJoin(c)
    /\ JoinOp(c, "delete", id, <<>>, None,
              id \in DOMAIN View(c) /\ ~StoreBusy(c, id))
    /\ UNCHANGED <<ovars, tvars, cvars, pvars, backend>>

\* tx.commit() by the caller
CallerCommit(c) ==
    /\ sop[c].pc = "idle" /\ ctx[c].st = "open"
    /\ table' = View(c)
    /\ log' = log \o ctx[c].evs
    /\ ctx' = [ctx EXCEPT ![c] = NoCtx]
    /\ UNCHANGED <<ovars, tvars, cvars, pvars, backend, sop>>

\* tx.rollback() by the caller, or the transaction is dropped
CallerRollback(c) ==
    /\ sop[c].pc = "idle" /\ ctx[c].st \in {"open", "failed"}
    /\ ctx' = [ctx EXCEPT ![c] = NoCtx]
    /\ UNCHANGED <<ovars, tvars, cvars, pvars, backend, table, log, sop>>


\* ------------------------------------------------------------ file manager
FilePending == 0
FileAvailable == 1

NoFile == [status |-> -1]
NoFileOp == [pc |-> "idle", id |-> 0, model |-> NoFile, res |-> "none"]

\* FileMeta fields that are set: upload's first meta, and the one with
\* the UploadResult of the storage
FirstMeta(sized) == IF sized THEN {"name", "size"} ELSE {"name"}
HashedMeta == {"name", "size", "md5", "sha3_224"}

\* id the database gives the next File row
NewFileId ==
    IF backend = "sqlite"
    THEN MaxOf({i \in FileIds : frow[i] # NoFile}) + 1
    ELSE fseq + 1

\* a confirm whose UPDATE is not fenced on the status column
ConfirmMatchesAnyStatus(id) == frow[id] # NoFile

\* WHERE "id" = $id AND "status" = Pending, as PendingFile::confirm asks
ConfirmMatches(id) == frow[id] # NoFile /\ frow[id].status = FilePending

\* FileManager::upload up to files.create: a key is generated and the row
\* is inserted Pending with a TTL of 60 s and the meta known before the
\* content is read
UploadCreate(u) ==
    /\ fop[u].pc = "idle" /\ fseq < MaxUploads
    /\ \E sized \in BOOLEAN :
         LET key == fseq + 1
             model == [status |-> FilePending, expire |-> "future",
                       path |-> key, meta |-> FirstMeta(sized)]
         IN /\ fseq' = key
            /\ frow' = [frow EXCEPT ![NewFileId] = model]
            /\ fop' = [fop EXCEPT ![u] = [pc |-> "created", id |-> NewFileId,
                                          model |-> model, res |-> "none"]]
    /\ UNCHANGED <<tvars, cvars, pvars, svars, hvars, xvars, evars, fblob>>

\* the rest of upload: storage.upload writes the content and returns its
\* size and hashes, which are set on the model of the PendingFile; a
\* failed storage.upload returns the error and leaves the row
UploadStore(u) ==
    /\ fop[u].pc = "created"
    /\ \/ /\ fblob' = fblob \cup {fop[u].model.path}
          /\ fop' = [fop EXCEPT ![u].pc = "pending",
                                ![u].model.meta = HashedMeta,
                                ![u].res = "ok"]
       \/ /\ fop' = [fop EXCEPT ![u] = [NoFileOp EXCEPT !.res = "err"]]
          /\ UNCHANGED fblob
    /\ UNCHANGED <<tvars, cvars, pvars, svars, hvars, xvars, evars, frow, fseq>>

\* PendingFile::confirm: update_where(model with status Available and no
\* expire_time, status = Pending); the PendingFile is consumed
Confirm(u) ==
    /\ fop[u].pc = "pending"
    /\ LET id == fop[u].id
           model == [fop[u].model EXCEPT !.status = FileAvailable,
                                         !.expire = "null"]
       IN IF ConfirmMatches(id)
          THEN /\ frow' = [frow EXCEPT ![id] = model]
               /\ fop' = [fop EXCEPT ![u] = [pc |-> "confirmed", id |-> id,
                                             model |-> model, res |-> "ok"]]
          ELSE /\ fop' = [fop EXCEPT ![u].pc = "confirmed", ![u].res = "err"]
               /\ UNCHANGED frow
    /\ UNCHANGED <<tvars, cvars, pvars, svars, hvars, xvars, evars, fblob, fseq>>

\* the PendingFile is dropped without confirm, or the caller is done
FileReturn(u) ==
    /\ fop[u].pc \in {"pending", "confirmed", "deleted"}
    /\ fop' = [fop EXCEPT ![u] = NoFileOp]
    /\ UNCHANGED <<tvars, cvars, pvars, svars, hvars, xvars, evars, frow, fblob, fseq>>

\* FileManager::delete up to its update_where: files.get, the refusal of a
\* Pending file whose TTL has not passed
DeleteGet(u, id) ==
    /\ fop[u].pc = "idle"
    /\ LET model == frow[id]
       IN IF model = NoFile
             \/ (model.status = FilePending /\ model.expire = "future")
          THEN fop' = [fop EXCEPT ![u] = [NoFileOp EXCEPT !.pc = "deleted",
                                                          !.res = "err"]]
          ELSE fop' = [fop EXCEPT ![u] = [pc |-> "del_get", id |-> id,
                                          model |-> model, res |-> "none"]]
    /\ UNCHANGED <<tvars, cvars, pvars, svars, hvars, xvars, evars, frow, fblob, fseq>>

\* delete's update_where(model with status Pending and a TTL,
\* status = the status read): a Pending file keeps its expire_time, any
\* other gets now + 60 s
DeleteMark(u) ==
    /\ fop[u].pc = "del_get"
    /\ LET id == fop[u].id
           old == fop[u].model
           model == [old EXCEPT
                       !.status = FilePending,
                       !.expire = IF old.status = FilePending
                                     /\ old.expire # "null"
                                  THEN old.expire ELSE "future"]
       IN IF frow[id] # NoFile /\ frow[id].status = old.status
          THEN /\ frow' = [frow EXCEPT ![id] = model]
               /\ fop' = [fop EXCEPT ![u].pc = "del_marked"]
          ELSE /\ fop' = [fop EXCEPT ![u].pc = "deleted", ![u].res = "err"]
               /\ UNCHANGED frow
    /\ UNCHANGED <<tvars, cvars, pvars, svars, hvars, xvars, evars, fblob, fseq>>

\* delete's storage.delete(key), which may fail
DeleteBlob(u) ==
    /\ fop[u].pc = "del_marked"
    /\ \/ /\ fblob' = fblob \ {fop[u].model.path}
          /\ fop' = [fop EXCEPT ![u].pc = "del_blob"]
       \/ /\ fop' = [fop EXCEPT ![u].pc = "deleted", ![u].res = "err"]
          /\ UNCHANGED fblob
    /\ UNCHANGED <<tvars, cvars, pvars, svars, hvars, xvars, evars, frow, fseq>>

\* delete's delete_where(id, status = Pending)
DeleteRow(u) ==
    /\ fop[u].pc = "del_blob"
    /\ LET id == fop[u].id
       IN IF frow[id] # NoFile /\ frow[id].status = FilePending
          THEN /\ frow' = [frow EXCEPT ![id] = NoFile]
               /\ fop' = [fop EXCEPT ![u].pc = "deleted", ![u].res = "ok"]
          ELSE /\ fop' = [fop EXCEPT ![u].pc = "deleted", ![u].res = "err"]
               /\ UNCHANGED frow
    /\ UNCHANGED <<tvars, cvars, pvars, svars, hvars, xvars, evars, fblob, fseq>>

\* the clock passes the expire_time of a row
Expire(id) ==
    /\ frow[id] # NoFile /\ frow[id].expire = "future"
    /\ frow' = [frow EXCEPT ![id].expire = "past"]
    /\ UNCHANGED <<tvars, cvars, pvars, svars, hvars, xvars, evars, fblob, fseq, fop>>

InitFiles ==
    /\ frow = [i \in FileIds |-> NoFile]
    /\ fblob = {}
    /\ fseq = 0
    /\ fop = [u \in Uploaders |-> NoFileOp]


\* ------------------------------------------------------- sandbox process
\* ticks of the supervisor's sleep(500 us) in Duration::from_millis(1)
TicksPerMs == 2
SIGKILL == 9
SIGSEGV == 11
MaxNow == RealTimeLimit + MaxOvershoot

\* exit codes and signals a child ends with on its own account
ExitCodes == {0, 1}
Signals == {SIGKILL, SIGSEGV}

NoStatus == [kind |-> "none", code |-> 0]
NoReport == [exit_code |-> -1, time |-> 0, real_time |-> 0]

\* Result<Report, Error> of a wait() call
WaitOk(report) == [ok |-> TRUE, report |-> report]
WaitErr == [ok |-> FALSE, report |-> NoReport]

\* a supervisor that reports the time it measured
Unclamped(real) == [time |-> 0, real_time |-> real]

\* lines 90-96 of run: time is ZERO, real_time is the time since
\* start_time, and both are set to limit + 1 ms when a limit is exceeded
Clamped(real) ==
    IF 0 > TimeLimit \/ real > RealTimeLimit
    THEN [time |-> TimeLimit + TicksPerMs,
          real_time |-> RealTimeLimit + TicksPerMs]
    ELSE [time |-> 0, real_time |-> real]

\* a decoding that reports every ending as the code of a normal exit
ExitCodeOfExit(status) == IF status.kind = "exited" THEN status.code ELSE 0

\* lines 85-89 of run: the code of Exited, the signal number of Signaled
ExitCodeOf(status) == status.code

\* Process::start: "process already started" while join_handle is Some;
\* otherwise a child is spawned in the container, a fresh token replaces
\* the old one and the supervisor is spawned with start_time = now. A
\* supervisor of an earlier start that has not ended runs on detached, with
\* the token it was given, and is followed no further
Start ==
    /\ proc.state = "created" /\ ~proc.waiting
    /\ IF proc.handle = "some"
       THEN UNCHANGED <<xnow, proc, sup, child>>
       ELSE /\ proc.spawned < MaxStarts
            /\ proc' = [proc EXCEPT !.handle = "some", !.tok = "live",
                                    !.started = TRUE, !.spawned = @ + 1]
            /\ child' = [st |-> "alive", status |-> NoStatus,
                         killed |-> "none"]
            /\ sup' = [pc |-> "poll", why |-> "none", status |-> NoStatus,
                       report |-> NoReport]
            /\ xnow' = 0
    /\ UNCHANGED <<tvars, cvars, pvars, svars, hvars, fvars, evars>>

\* the child exits by itself
ChildExit(code) ==
    /\ child.st = "alive"
    /\ child' = [child EXCEPT !.st = "zombie",
                              !.status = [kind |-> "exited", code |-> code]]
    /\ UNCHANGED <<tvars, cvars, pvars, svars, hvars, fvars, evars, xnow, proc, sup>>

\* the child is killed by a signal that is not the supervisor's
ChildSignal(sig) ==
    /\ child.st = "alive"
    /\ child' = [child EXCEPT !.st = "zombie",
                              !.status = [kind |-> "signaled", code |-> sig]]
    /\ UNCHANGED <<tvars, cvars, pvars, svars, hvars, fvars, evars, xnow, proc, sup>>

\* time passes while the supervisor runs
SandboxTick ==
    /\ sup.pc \notin {"none", "done"} /\ xnow < MaxNow
    /\ xnow' = xnow + 1
    /\ UNCHANGED <<tvars, cvars, pvars, svars, hvars, fvars, evars, proc, sup, child>>

\* a loop that gives up the child only on cancellation
KillReasonCancelOnly == IF proc.tok = "cancelled" THEN "cancel" ELSE "none"

\* the two tests of run's loop on a child that is still alive:
\* shutdown.is_cancelled(), then current_time > deadline
KillReason ==
    IF proc.tok = "cancelled" THEN "cancel"
    ELSE IF xnow > RealTimeLimit THEN "deadline"
    ELSE "none"

\* one turn of run's loop: waitpid(WNOHANG), then the cancellation and
\* deadline tests on a child that is still alive
SupPoll ==
    /\ sup.pc = "poll"
    /\ IF child.st = "zombie"
       THEN /\ sup' = [sup EXCEPT !.pc = "report", !.status = child.status]
            /\ child' = [child EXCEPT !.st = "reaped"]
       ELSE /\ sup' = [sup EXCEPT
                          !.pc = IF KillReason = "none" THEN "sleep"
                                 ELSE "kill",
                          !.why = KillReason]
            /\ UNCHANGED child
    /\ UNCHANGED <<tvars, cvars, pvars, svars, hvars, fvars, evars, xnow, proc>>

\* kill(pid, SIGKILL) and the blocking waitpid: a child that is still
\* alive dies of the signal, one that has just ended keeps its status
SupKill ==
    /\ sup.pc = "kill"
    /\ LET status == IF child.st = "alive"
                     THEN [kind |-> "signaled", code |-> SIGKILL]
                     ELSE child.status
       IN /\ sup' = [sup EXCEPT !.pc = "report", !.status = status]
          /\ child' = [child EXCEPT
                          !.st = "reaped", !.status = status,
                          !.killed = IF child.st = "alive" THEN sup.why
                                     ELSE "none"]
    /\ UNCHANGED <<tvars, cvars, pvars, svars, hvars, fvars, evars, xnow, proc>>

\* sleep(Duration::from_micros(500)): at least one tick
SupSleep ==
    /\ sup.pc = "sleep"
    /\ \E d \in 1..2 :
          xnow' = IF xnow + d > MaxNow THEN MaxNow ELSE xnow + d
    /\ sup' = [sup EXCEPT !.pc = "poll"]
    /\ UNCHANGED <<tvars, cvars, pvars, svars, hvars, fvars, evars, proc, child>>

\* the end of run: exit_code, the clamped times and the Report
SupReport ==
    /\ sup.pc = "report"
    /\ sup' = [sup EXCEPT
                 !.pc = "done",
                 !.report = [exit_code |-> ExitCodeOf(sup.status)]
                            @@ Clamped(xnow)]
    /\ UNCHANGED <<tvars, cvars, pvars, svars, hvars, fvars, evars, xnow, proc, child>>

\* Process::wait up to its await: the handle is taken, or the call
\* returns "Process is not started"
WaitCall ==
    /\ proc.state = "created" /\ ~proc.waiting
    /\ Len(proc.waits) < MaxWaits
    /\ IF proc.handle = "some"
       THEN proc' = [proc EXCEPT !.handle = "none",
                                 !.waiting = TRUE]
       ELSE proc' = [proc EXCEPT !.waits = Append(@, WaitErr)]
    /\ UNCHANGED <<tvars, cvars, pvars, svars, hvars, fvars, evars, xnow, sup, child>>

\* the awaited JoinHandle yields the supervisor's result
WaitReturn ==
    /\ proc.state = "created" /\ proc.waiting /\ sup.pc = "done"
    /\ proc' = [proc EXCEPT !.waiting = FALSE,
                            !.waits = Append(@, WaitOk(sup.report))]
    /\ UNCHANGED <<tvars, cvars, pvars, svars, hvars, fvars, evars, xnow, sup, child>>

\* the future of wait is dropped at its await (the caller's task is
\* aborted or another branch of a select wins): the JoinHandle goes with
\* it and the supervisor runs on detached
WaitDropped ==
    /\ proc.state = "created" /\ proc.waiting
    /\ proc' = [proc EXCEPT !.waiting = FALSE]
    /\ UNCHANGED <<tvars, cvars, pvars, svars, hvars, fvars, evars, xnow, sup, child>>

\* Drop for Process up to the end of its wait: the token is cancelled when
\* there is one, and wait blocks on the handle when there is one
DropCall ==
    /\ proc.state = "created" /\ ~proc.waiting
    /\ LET tok == IF proc.tok = "none" THEN "none" ELSE "cancelled"
       IN IF proc.handle = "some"
          THEN proc' = [proc EXCEPT !.tok = tok, !.state = "dropping",
                                    !.handle = "none"]
          ELSE proc' = [proc EXCEPT !.tok = tok, !.state = "dropped",
                                    !.dirs = FALSE]
    /\ UNCHANGED <<tvars, cvars, pvars, svars, hvars, fvars, evars, xnow, sup, child>>

\* the rest of Drop once wait has returned: the state directory and the
\* cgroup are removed
DropRemove ==
    /\ proc.state = "dropping" /\ sup.pc = "done"
    /\ proc' = [proc EXCEPT !.state = "dropped", !.dirs = FALSE]
    /\ UNCHANGED <<tvars, cvars, pvars, svars, hvars, fvars, evars, xnow, sup, child>>

InitSandbox ==
    /\ xnow = 0
    /\ proc = [state |-> "created", handle |-> "none", tok |-> "none",
               started |-> FALSE, waiting |-> FALSE, waits |-> <<>>,
               dirs |-> TRUE, spawned |-> 0]
    /\ sup = [pc |-> "none", why |-> "none", status |-> NoStatus,
              report |-> NoReport]
    /\ child = [st |-> "none", status |-> NoStatus, killed |-> "none"]


\* ------------------------------------------------- the mutexes of a handle
\* one Task handle shared by its pinger task and the handler of its task
Users == {"pinger", "handler"}

\* the calls each of them makes: run_pinger calls is_expires_after and ping;
\* the handler and run_task call the getters (get_id, get_kind, get_status,
\* get_state, parse_config: "get"), set_state, set_deferred_state and
\* set_status
CallsOf(u) ==
    IF u = "pinger" THEN {"is_expires_after", "ping"}
    ELSE {"get", "set_state", "set_deferred_state", "set_status"}

\* the calls that go through Task::update
Updating == {"ping", "set_state", "set_status"}

\* a ping that locks stored_task before task
LockOrderPingStoredFirst(op) ==
    IF op = "ping" THEN <<"stored", "task">>
    ELSE IF op \in Updating THEN <<"task", "stored">>
    ELSE <<"task">>

\* the mutexes a call locks, in the order it locks them: every call begins
\* with self.inner.task.lock().await, and Task::update, called with that
\* guard held, begins with self.inner.stored_task.lock().await
LockOrder(op) ==
    IF op \in Updating THEN <<"task", "stored">> ELSE <<"task">>

NoCall == [pc |-> "idle", op |-> "none", k |-> 0, calls |-> 0]

\* user u calls op and reaches the first lock().await
HandleCall(u, op) ==
    /\ hu[u].pc = "idle" /\ hu[u].calls < MaxCalls
    /\ hu' = [hu EXCEPT ![u] = [pc |-> "lock", op |-> op, k |-> 0,
                                calls |-> @.calls + 1]]
    /\ lq' = [lq EXCEPT ![LockOrder(op)[1]] = Append(@, u)]
    /\ UNCHANGED <<tvars, cvars, pvars, svars, fvars, xvars, evars, lk>>

\* tokio::sync::Mutex::lock resolves: the mutex is free and u is the first
\* of its waiters; u goes on to its next lock().await or into the body
MutexAcquire(u) ==
    /\ hu[u].pc = "lock"
    /\ LET order == LockOrder(hu[u].op)
           m == order[hu[u].k + 1]
           last == hu[u].k + 1 = Len(order)
       IN /\ lk[m] = "none"
          /\ lq[m] # <<>> /\ Head(lq[m]) = u
          /\ lk' = [lk EXCEPT ![m] = u]
          /\ lq' = IF last THEN [lq EXCEPT ![m] = Tail(@)]
                   ELSE [lq EXCEPT ![m] = Tail(@),
                                   ![order[hu[u].k + 2]] = Append(@, u)]
          /\ hu' = [hu EXCEPT ![u].k = @ + 1,
                              ![u].pc = IF ~last THEN "lock"
                                        ELSE IF hu[u].op \in Updating
                                        THEN "check"
                                        ELSE "call_ret"]
    /\ UNCHANGED <<tvars, cvars, pvars, svars, fvars, xvars, evars>>

\* Task::update with both guards held: Err("task expired"), or the
\* update_where call is made
UpdateCheck(u, expired) ==
    /\ hu[u].pc = "check"
    /\ hu' = [hu EXCEPT ![u].pc = IF expired THEN "update_ret" ELSE "db"]
    /\ UNCHANGED <<tvars, cvars, pvars, svars, fvars, xvars, evars, lk, lq>>

\* the database call returns, Ok or Err
DbReturns(u) ==
    /\ hu[u].pc = "db"
    /\ hu' = [hu EXCEPT ![u].pc = "update_ret"]
    /\ UNCHANGED <<tvars, cvars, pvars, svars, fvars, xvars, evars, lk, lq>>

\* Task::update returns: its stored_task guard is dropped
UpdateReturn(u) ==
    /\ hu[u].pc = "update_ret"
    /\ lk' = [lk EXCEPT !["stored"] = "none"]
    /\ hu' = [hu EXCEPT ![u].pc = "call_ret"]
    /\ UNCHANGED <<tvars, cvars, pvars, svars, fvars, xvars, evars, lq>>

\* the call returns: its task guard is dropped
CallReturn(u) ==
    /\ hu[u].pc = "call_ret"
    /\ lk' = [lk EXCEPT !["task"] = "none"]
    /\ hu' = [hu EXCEPT ![u].pc = "idle", ![u].op = "none", ![u].k = 0]
    /\ UNCHANGED <<tvars, cvars, pvars, svars, fvars, xvars, evars, lq>>

InitHandle ==
    /\ lk = [m \in {"task", "stored"} |-> "none"]
    /\ lq = [m \in {"task", "stored"} |-> <<>>]
    /\ hu = [u \in Users |-> NoCall]

\* ------------------------------------------------------------ enum columns
\* largest payload of a variant Unknown(i8)
I8Max == 127

Enums == {"task_kind", "task_status", "file_status", "event_kind"}

\* discriminants of the named variants
Named(e) ==
    CASE e = "task_kind" -> {JudgeSolution, UpdateProblemPackage}
      [] e = "task_status" -> {Queued, Running, Succeeded, Failed}
      [] e = "file_status" -> {FilePending, FileAvailable}
      [] e = "event_kind" -> {1, 2, 3}

\* the payload type of Unknown: i8 for TaskKind and EventKind, i64 for
\* TaskStatus and FileStatus
Narrow(e) == e \in {"task_kind", "event_kind"}

\* from_value: the i64 of Value::BigInt is matched against the
\* discriminants; any other value goes through try_into() to the payload
\* type of Unknown, which fails outside that type's range
Decode(e, v) ==
    IF v \in Named(e) THEN [ok |-> TRUE, named |-> TRUE, v |-> v]
    ELSE IF Narrow(e) /\ (v > I8Max \/ v < -I8Max - 1)
    THEN [ok |-> FALSE, named |-> FALSE, v |-> 0]
    ELSE [ok |-> TRUE, named |-> FALSE, v |-> v]

\* into_value: the discriminant of a named variant, the payload of Unknown
Encode(e, d) == d.v

\* a stored value is read: FromValue for the enum of the column
DecodeValue ==
    /\ conv.pc = "stored"
    /\ LET d == Decode(conv.enum, conv.v)
       IN conv' = [conv EXCEPT !.pc = IF d.ok THEN "decoded" ELSE "failed",
                               !.dec = d]
    /\ UNCHANGED <<tvars, cvars, pvars, svars, hvars, fvars, xvars>>

\* the decoded value is written back: IntoValue
EncodeValue ==
    /\ conv.pc = "decoded"
    /\ conv' = [conv EXCEPT !.pc = "encoded",
                            !.out = Encode(conv.enum, conv.dec)]
    /\ UNCHANGED <<tvars, cvars, pvars, svars, hvars, fvars, xvars>>

Stored(e, v) ==
    [enum |-> e, v |-> v, pc |-> "stored",
     dec |-> [ok |-> FALSE, named |-> FALSE, v |-> 0], out |-> 0]

InitEnums == conv = Stored("task_kind", JudgeSolution)

\* ------------------------------------------------------------------ specs
\* a task table of n Queued rows, each of a known or of an Unknown kind
InitTasksOf(n) ==
    /\ now = 0
    /\ rows \in [1..n -> {InitRow(k) : k \in KindValues}]
    /\ events = [t \in 1..n |-> <<"Create">>]
    /\ pc = [w \in Workers |-> "loop"]
    /\ tx = [w \in Workers |-> NoTx]
    /\ handle = [w \in Workers |-> NoHandle]
    /\ mu = [w \in Workers |-> "free"]
    /\ pinger = [w \in Workers |-> NoPinger]
    /\ token = [w \in Workers |-> FALSE]
    /\ hres = [w \in Workers |-> "none"]
    /\ hops = [w \in Workers |-> 0]
    /\ commits = [t \in 1..n |-> 0]
    /\ ext = 0

InitTasks == InitTasksOf(NumTasks)

InitCaches ==
    /\ cache = <<>>
    /\ futs = [k \in Keys |-> 0]
    /\ fut = <<>>
    /\ readers = {}
    /\ cpc = [c \in Callers |-> "idle"]
    /\ ckey = [c \in Callers |-> 1]
    /\ cfut = [c \in Callers |-> 0]
    /\ held = [c \in Callers |-> 0]
    /\ freed = [o \in 1..MaxLoads |-> 0]
    /\ loads = [k \in Keys |-> 0]
    /\ plain = [k \in Keys |-> TRUE]

InitProcess ==
    /\ shutdown = FALSE
    /\ runres = "running"

\* no caller is in a store method, both tables are empty
InitTables ==
    /\ table = <<>>
    /\ log = <<>>
    /\ sop = [c \in Clients |-> NoOp]
    /\ ctx = [c \in Clients |-> NoCtx]

InitOthers ==
    /\ InitFiles
    /\ InitSandbox
    /\ InitEnums
    /\ InitHandle

Init ==
    /\ InitTasks
    /\ InitCaches
    /\ InitProcess
    /\ InitTables
    /\ InitOthers
    /\ backend = "postgres"

WorkerNext(w) ==
    \/ TakeSelect(w)
    \/ TakeUpdate(w)
    \/ TakeCommit(w)
    \/ Backoff(w)
    \/ RunTask(w)
    \/ \E s \in StateValues : HandlerSetState(w, s)
    \/ \E s \in StateValues : HandlerSetDeferredState(w, s)
    \/ \E r \in {"ok", "err"} : HandlerReturn(w, r)
    \/ JoinPinger(w)
    \/ SetStatus(w)
    \/ TaskDone(w)
    \/ PingerCancelled(w)
    \/ PingerWake(w)
    \/ PingerCheckExpired(w)
    \/ PingerCheckMargin(w)
    \/ Ping(w)
    \/ HandleCommit(w)

Next ==
    \/ \E w \in Workers : WorkerNext(w)
    \/ \E t \in TaskIds : ExternalUpdate(t)
    \/ Tick

Spec == Init /\ [][Next]_vars

\* ---- the timely system: pinger timeouts fire on time and every lease write
\* (take_task's and ping's) completes in less than the renewal margin
\* the pinger's timeout has elapsed, or its tick is being processed
PingerDue(w) ==
    \/ pinger[w].pc \in {"chk0", "chk15", "call"}
    \/ pinger[w].pc = "sleep" /\ pinger[w].left = 0 /\ ~token[w]

\* a lease write is in flight: take_task's or ping's UPDATE is not committed
LeaseWrite(w) ==
    tx[w].id # 0 /\ tx[w].locked /\ (pc[w] = "updated" \/ mu[w] = "pinger")

\* ticks since the lease write in flight computed its expire_time
LeaseWriteAge(w) ==
    LET lease == IF pc[w] = "updated" THEN LeaseSecs ELSE PingLeaseSecs
        expire == CHOOSE v \in tx[w].new.expire : TRUE
    IN lease * Res - (expire - now)

\* the clock may tick: no pinger tick is overdue, no lease write would reach
\* the age of the renewal margin, and a claimed task has its pinger spawned
MayTick(w) ==
    /\ ~PingerDue(w)
    /\ pc[w] # "claimed"
    /\ LeaseWrite(w) => LeaseWriteAge(w) + 1 < PingMarginSecs * Res

TickTimely ==
    /\ \A w \in Workers : MayTick(w)
    /\ Tick

NextTimely ==
    \/ \E w \in Workers : WorkerNext(w)
    \/ TickTimely

SpecTimely == Init /\ [][NextTimely]_vars

\* ---- the invoker process within one backoff delay: workers, their
\* handlers (which may panic), the shutdown signal and Invoker::run
ProcessWorkerNext(w) ==
    \/ TakeSelect(w)
    \/ TakeUpdate(w)
    \/ TakeCommit(w)
    \/ Backoff(w)
    \/ RunTask(w)
    \/ \E s \in StateValues : HandlerSetState(w, s)
    \/ \E s \in StateValues : HandlerSetDeferredState(w, s)
    \/ \E r \in {"ok", "err"} : HandlerReturn(w, r)
    \/ HandlerPanic(w)
    \/ JoinPinger(w)
    \/ SetStatus(w)
    \/ TaskDone(w)
    \/ PingerCancelled(w)
    \/ HandleCommit(w)
    \/ WorkerExit(w)

NextShutdown ==
    \/ \E w \in Workers : ProcessWorkerNext(w)
    \/ CancelShutdown
    \/ RunReturns

SpecShutdown == Init /\ [][NextShutdown]_vars

\* ---- the cache manager used by NumCallers tasks
CallerNext(c) ==
    \/ \E k \in Keys : CallLoad(c, k)
    \/ \E k \in Keys : CallReload(c, k)
    \/ \E k \in Keys : Delete(c, k)
    \/ Get1(c)
    \/ ReadLock(c)
    \/ Get2(c)
    \/ FuturesGet(c)
    \/ Reload(c)
    \/ StartLoad(c)
    \/ \E r \in {"ok", "err"} : LoadReturns(c, r)
    \/ FinishLoad(c)
    \/ Collect(c)
    \/ DropObject(c)

NextCache == \E c \in Callers : CallerNext(c)

InitCache == Init /\ rows = [t \in TaskIds |-> InitRow(JudgeSolution)]

SpecCache == InitCache /\ [][NextCache]_vars

\* ---- the object store used by NumClients callers, on either database
ClientNext(c) ==
    \/ \E o \in StoreInputs : StoreCreate(c, o)
    \/ \E o \in StoreInputs : StoreUpdate(c, o)
    \/ \E o \in StoreInputs, s \in StateValues :
           StoreUpdateWhere(c, o, Some(s), "update_where")
    \/ \E id \in ObjectIds : StoreDelete(c, id)
    \/ CreateEvent(c)
    \/ StoreCommit(c)
    \/ StoreRollback(c)
    \/ StoreReturn(c)

NextStore == \E c \in Clients : ClientNext(c)

InitStore ==
    /\ InitTasks /\ rows = [t \in TaskIds |-> InitRow(JudgeSolution)]
    /\ InitCaches
    /\ InitProcess
    /\ InitTables
    /\ InitOthers
    /\ backend \in {"sqlite", "postgres"}

SpecStore == InitStore /\ [][NextStore]_vars

\* ---- the object store with callers that also bring their own transaction
ClientTxNext(c) ==
    \/ BeginTx(c)
    \/ \E o \in StoreInputs : StoreCreateIn(c, o)
    \/ \E o \in StoreInputs : StoreUpdateWhereIn(c, o, None, "update")
    \/ \E o \in StoreInputs, s \in StateValues :
           StoreUpdateWhereIn(c, o, Some(s), "update_where")
    \/ \E id \in ObjectIds : StoreDeleteIn(c, id)
    \/ CallerCommit(c)
    \/ CallerRollback(c)

NextStoreTx == \E c \in Clients : ClientNext(c) \/ ClientTxNext(c)

SpecStoreTx == InitStore /\ [][NextStoreTx]_vars

\* ---- the file manager: callers that upload, confirm and delete files
UploaderNext(u) ==
    \/ UploadCreate(u)
    \/ UploadStore(u)
    \/ Confirm(u)
    \/ FileReturn(u)
    \/ \E id \in FileIds : DeleteGet(u, id)
    \/ DeleteMark(u)
    \/ DeleteBlob(u)
    \/ DeleteRow(u)

NextFiles ==
    \/ \E u \in Uploaders : UploaderNext(u)
    \/ \E id \in FileIds : Expire(id)

SpecFiles == InitStore /\ [][NextFiles]_vars

\* ---- one sandboxed process, its supervisor, its child and its owner
SupervisorNext ==
    \/ SupPoll
    \/ SupKill
    \/ SupSleep
    \/ SupReport

NextSandbox ==
    \/ Start
    \/ \E code \in ExitCodes : ChildExit(code)
    \/ \E sig \in Signals : ChildSignal(sig)
    \/ SandboxTick
    \/ SupervisorNext
    \/ WaitCall
    \/ WaitReturn
    \/ WaitDropped
    \/ DropCall
    \/ DropRemove

SpecSandbox == Init /\ [][NextSandbox]_vars

\* ---- every enum column with every stored integer of the range
NextEnum == DecodeValue \/ EncodeValue

InitEnum ==
    /\ InitTasks /\ rows = [t \in TaskIds |-> InitRow(JudgeSolution)]
    /\ InitCaches
    /\ InitProcess
    /\ InitTables
    /\ InitFiles
    /\ InitSandbox
    /\ InitHandle
    /\ backend = "postgres"
    /\ \E e \in Enums, v \in -MaxValue..MaxValue : conv = Stored(e, v)

SpecEnum == InitEnum /\ [][NextEnum]_vars

\* ---- one worker alone on a task table one row longer than the batch of
\* take_task's select
InitQueue ==
    /\ InitTasksOf(SelectLimit + 1)
    /\ InitCaches
    /\ InitProcess
    /\ InitTables
    /\ InitOthers
    /\ backend = "postgres"

NextQueue ==
    \/ TakeSelect(1)
    \/ TakeUpdate(1)
    \/ TakeCommit(1)
    \/ Backoff(1)
    \/ RunTask(1)
    \/ \E r \in {"ok", "err"} : HandlerReturn(1, r)
    \/ PingerCancelled(1)
    \/ JoinPinger(1)
    \/ SetStatus(1)
    \/ HandleCommit(1)
    \/ TaskDone(1)

SpecQueue == InitQueue /\ [][NextQueue]_vars

\* ---- one Task handle used by its pinger and its handler at once
\* the steps of a call that is under way
CallStep(u) ==
    \/ MutexAcquire(u)
    \/ \E e \in BOOLEAN : UpdateCheck(u, e)
    \/ DbReturns(u)
    \/ UpdateReturn(u)
    \/ CallReturn(u)

NextHandle ==
    \E u \in Users :
        \/ \E op \in CallsOf(u) : HandleCall(u, op)
        \/ CallStep(u)

SpecHandle == Init /\ [][NextHandle]_vars

\* both tasks keep being polled, a free mutex is handed to its first
\* waiter, and the database call returns
SpecHandleFair == SpecHandle /\ \A u \in Users : WF_vars(CallStep(u))

\* the supervisor thread keeps running on the blocking pool and a completed
\* JoinHandle wakes the wait that awaits it
SpecSandboxFair ==
    /\ SpecSandbox
    /\ WF_vars(SupervisorNext)
    /\ WF_vars(WaitReturn)
    /\ WF_vars(DropRemove)

\* ------------------------------------------------------- task queue claims
\* a worker step: neither the clock nor the external client has moved
WorkerStep == now' = now /\ ext' = ext

\* worker w's take_task returns in this step
TakeReturns(w, how) == pc[w] \in {"loop", "selected"} /\ pc'[w] = how

\* C1: of the take_task calls racing for one Queued task at most one commits
\* the Queued -> Running update; a call that returns None or an error leaves
\* the table unchanged, and a call that fails on the update has lost to a
\* transaction that holds the row or has changed it
C1_SingleClaim ==
    [][/\ \A t \in TaskIds : commits'[t] <= 1
       /\ \A w \in Workers :
            /\ TakeReturns(w, "take_none") \/ TakeReturns(w, "take_err")
                   => rows' = rows /\ events' = events /\ commits' = commits
            /\ TakeReturns(w, "take_err")
                   => \/ LockedByOther(w, tx[w].id)
                      \/ tx[w].stale]_vars

\* two workers selected the same Queued task; one committed, the other failed
C1_Witness ==
    \E w, v \in Workers :
        /\ w # v /\ ext = 0
        /\ pc[w] = "claimed" /\ pc[v] = "take_err"
        /\ tx[v].id = handle[w].id
        /\ commits[handle[w].id] = 1

\* a Running row whose lease has run out and which no worker holds
Abandoned(t) ==
    /\ rows[t].status = Running
    /\ TaskKindOf(rows[t].kind) # "Unknown"
    /\ IsExpired(FromRow(t, rows[t]), now)
    /\ \A w \in Workers : handle[w].id # t /\ tx[w].id # t

\* C2: a take_task call made while an abandoned Running row exists does not
\* come back empty-handed (it claims the row)
C2_AbandonedReclaimed ==
    [][\A w \in Workers :
          TakeReturns(w, "take_none") => ~\E t \in TaskIds : Abandoned(t)]_vars

\* the row of the task worker w holds differs, in kind, status or expire_time,
\* from what the handle last stored
TupleDiffers(w) ==
    LET row == rows[handle[w].id]
        stored == IntoRow(handle[w].stored)
    IN <<row.kind, row.status, row.expire>>
           # <<stored.kind, stored.status, stored.expire>>

\* C6: a set_status call made while the row's (kind, status, expire_time)
\* differs from the tuple the handle last stored returns an error, opens no
\* write and leaves the row unchanged
C6_SetStatusFenced ==
    [][\A w \in Workers :
          (/\ pc[w] = "final" /\ pc'[w] # "final"
           /\ TupleDiffers(w))
          => /\ pc'[w] = "status_err"
             /\ tx'[w] = NoTx
             /\ rows' = rows /\ events' = events]_vars

\* set_status has failed on the fence (the stored lease had not run out)
C6_Witness ==
    \E w \in Workers :
        /\ pc[w] = "status_err"
        /\ ~IsExpired(handle[w].stored, now)
        /\ TupleDiffers(w)

StatusSuccessors(st) ==
    IF st = Queued THEN {Queued, Running}
    ELSE IF st = Running THEN {Running, Succeeded, Failed}
    ELSE {st}

\* C7: the status of a task only moves Queued -> Running -> {Succeeded,
\* Failed}; no step brings it back, and no worker step changes a row whose
\* status is terminal
C7_StatusForward ==
    [][\A t \in TaskIds :
          /\ rows'[t].status \in StatusSuccessors(rows[t].status)
          /\ (rows[t].status \in {Succeeded, Failed} /\ WorkerStep)
                 => rows'[t] = rows[t] /\ events'[t] = events[t]]_vars

\* a task was completed and a worker polled the queue again
C7_Witness ==
    \E t \in TaskIds, w \in Workers :
        /\ rows[t].status = Succeeded
        /\ Len(events[t]) >= 3
        /\ pc[w] = "take_none"

\* the lease worker w holds ends after now, in the handle and in the table
LeaseAhead(w) ==
    /\ \E v \in handle[w].task.expire : v > now
    /\ \E v \in OptFromValue(rows[handle[w].id].expire) : v > now

C9_ExpiredCancels ==
    [][\A w \in Workers :
          /\ (/\ pinger[w].pc = "chk0" /\ pinger'[w].pc # "chk0"
              /\ IsExpired(handle[w].task, now))
             => /\ token'[w]
                /\ pinger'[w].pc = "expired"
                /\ tx' = tx /\ rows' = rows
          /\ pinger[w].pc = "expired"
             => /\ pinger'[w].pc \in {"expired", "none"}
                /\ mu'[w] # "pinger"]_vars

\* the pinger found the lease expired while the handler was running
C9_Witness ==
    \E w \in Workers :
        /\ pinger[w].pc = "expired" /\ token[w]
        /\ pc[w] = "handler"
        /\ IsExpired(handle[w].task, now)

\* the row of the task worker w holds no longer matches the handle's fence
FenceBroken(w) == handle[w].id # 0 /\ TupleDiffers(w)

\* C10: once the fence of a claimed task is broken, a ping returns an error
\* and writes nothing, the token is cancelled by the time the terminal write
\* is made, that write fails and writes nothing, and the worker goes back to
\* polling
C10_BrokenFence ==
    [][\A w \in Workers :
          /\ (pinger[w].pc = "call" /\ pinger'[w].pc # "call" /\ FenceBroken(w))
             => /\ pinger'[w].pc = "sleep" /\ pinger'[w].failed
                /\ tx'[w] = NoTx /\ rows' = rows
          /\ (pc[w] = "final" /\ pc'[w] # "final" /\ FenceBroken(w))
             => /\ token[w]
                /\ pc'[w] = "status_err"
                /\ tx'[w] = NoTx /\ rows' = rows
          /\ (pc[w] = "status_err" /\ pc'[w] # "status_err")
             => pc'[w] = "loop"]_vars

\* after an external update a ping failed, the token was cancelled and the
\* terminal write failed
C10_Witness ==
    \E w \in Workers :
        /\ ext > 0 /\ FenceBroken(w)
        /\ pinger[w].failed /\ token[w]
        /\ pc[w] = "status_err"

\* the lease of worker w's task is held: the stored lease has not run out
\* and the row still carries the tuple the handle stored
LeaseHeld(w) ==
    /\ ~IsExpired(handle[w].stored, now)
    /\ ~TupleDiffers(w)
    /\ ~LockedByOther(w, handle[w].id)

\* C11: when the handler has returned and the lease of the task is held, the
\* worker writes the terminal status, Succeeded if the handler returned Ok
\* and Failed if it returned Err, and that is the status the row has when
\* the write has committed
C11_TerminalStatus ==
    [][\A w \in Workers :
          /\ (pc[w] = "final" /\ pc'[w] # "final" /\ LeaseHeld(w))
             => /\ pc'[w] = "status"
                /\ hres[w] \in {"ok", "err"}
                /\ (tx'[w].new.status = Succeeded) = (hres[w] = "ok")
                /\ (tx'[w].new.status = Failed) = (hres[w] = "err")
          /\ (pc[w] = "status" /\ pc'[w] # "status")
             => /\ pc'[w] = "status_ok"
                /\ (rows'[handle[w].id].status = Succeeded) = (hres[w] = "ok")
                /\ (rows'[handle[w].id].status = Failed) = (hres[w] = "err")
      ]_vars

\* one worker has committed Succeeded after Ok, the other Failed after Err
C11_Witness ==
    \E w, v \in Workers :
        /\ pc[w] = "status_ok" /\ hres[w] = "ok"
        /\ rows[handle[w].id].status = Succeeded
        /\ pc[v] = "status_ok" /\ hres[v] = "err"
        /\ rows[handle[v].id].status = Failed

\* worker w's update_where in take_task has lost the row to another worker:
\* the other transaction has committed its update or holds the row
LostRace(w) == tx[w].stale \/ LockedByOther(w, tx[w].id)

\* C15: a take_task whose fenced update_where affects no row because another
\* worker has claimed the candidate does not return an error (it goes on to
\* the next candidate)
C15_ConflictContinues ==
    [][\A w \in Workers :
          pc[w] = "selected" /\ LostRace(w) => pc'[w] # "take_err"]_vars

\* the Queued rows of a known kind among the rows take_task selects
KnownQueued ==
    {t \in Batch : rows[t].kind \in {JudgeSolution, UpdateProblemPackage}}

\* C16: take_task neither returns nor modifies a task whose kind decodes to
\* Unknown, and when its batch holds no Queued row of a known kind it
\* returns None and writes to neither table
C16_UnknownKindSkipped ==
    [][\A w \in Workers :
          /\ (pc[w] = "loop" /\ pc'[w] = "selected")
             => TaskKindOf(rows[tx'[w].id].kind) # "Unknown"
          /\ (pc[w] = "updated" /\ pc'[w] = "claimed")
             => /\ TaskKindOf(handle'[w].task.kind) # "Unknown"
                /\ \A t \in TaskIds :
                       TaskKindOf(rows[t].kind) = "Unknown" =>
                           rows'[t] = rows[t] /\ events'[t] = events[t]
          /\ (pc[w] = "loop" /\ pc'[w] # "loop" /\ KnownQueued = {})
             => /\ pc'[w] = "take_none"
                /\ tx'[w] = NoTx
                /\ rows' = rows /\ events' = events
      ]_vars

\* take_task has returned None over a Queued row of an Unknown kind
C16_Witness ==
    \E w \in Workers, t \in TaskIds :
        /\ pc[w] = "take_none"
        /\ rows[t].status = Queued
        /\ TaskKindOf(rows[t].kind) = "Unknown"

\* worker w has left its loop
Gone(w) == pc[w] \in {"exited", "panicked", "aborted"}

\* C12: a worker leaves its loop only when shutdown is signalled; after a
\* take_task error, a failed terminal write (fence conflict included) or a
\* finished task, whatever the handler's result, it goes on to the next
\* take_task
C12_WorkerSurvives ==
    [][\A w \in Workers :
          /\ (~Gone(w) /\ pc'[w] \in {"exited", "panicked", "aborted"})
             => shutdown
          /\ (pc[w] \in {"take_err", "status_err", "status_ok"}
                 /\ pc'[w] # pc[w] /\ ~shutdown)
             => pc'[w] = "loop"
      ]_vars

\* worker w is in take_task or in the backoff sleep, not in a handler
Polling(w) == pc[w] \in {"loop", "selected", "updated", "take_none", "take_err"}

\* C13: once shutdown is signalled a worker that is polling can exit at
\* once; it starts no take_task and does not sleep a backoff out; and
\* Invoker::run returns Ok only after all workers have exited, which it then
\* can
C13_ShutdownExits ==
    /\ [](\A w \in Workers :
             shutdown /\ Polling(w) => ENABLED WorkerExit(w))
    /\ []((\A w \in Workers : pc[w] = "exited") =>
             /\ runres # "err"
             /\ runres = "running" => ENABLED RunReturns)
    /\ [][/\ \A w \in Workers :
               (shutdown /\ pc[w] \in {"loop", "take_none", "take_err"}
                   /\ pc'[w] # pc[w])
               => pc'[w] \in {"exited", "aborted"}
          /\ (runres' = "ok" /\ runres # "ok")
               => \A w \in Workers : pc[w] = "exited"
         ]_vars

\* Invoker::run has returned Ok after a shutdown, all workers have exited
\* and one of them finished a task before
C13_Witness ==
    /\ shutdown /\ runres = "ok"
    /\ \A w \in Workers : pc[w] = "exited"
    /\ \E t \in TaskIds : rows[t].status = Succeeded

\* C14: a shutdown of the process reaches the cancellation token of every
\* running handler, and with it the handler's pinger
C14_ShutdownPropagates ==
    shutdown =>
        \A w \in Workers :
            /\ pc[w] = "handler" => token[w]
            /\ pinger[w].pc = "sleep" => token[w]

\* C31: from the moment run_task goes on to the terminal set_status until
\* it has returned, the pinger of the claim, if one was spawned, has been
\* cancelled and has ended: it holds no mutex, has no update in flight and
\* takes no further step
C31_PingerEndsBeforeStatus ==
    /\ [](\A w \in Workers :
             pc[w] \in {"final", "status", "status_ok", "status_err"} =>
                /\ pinger[w].pc \in {"none", "done", "expired"}
                /\ pinger[w].pc # "none" => token[w]
                /\ mu[w] # "pinger")
    /\ [][\A w \in Workers :
             pc[w] \in {"final", "status", "status_ok", "status_err"}
             /\ pc'[w] \in {"final", "status", "status_ok", "status_err"}
                => pinger'[w] = pinger[w]]_vars

\* the terminal status write is in flight for a claim whose pinger renewed
\* the lease and has ended on the cancellation
C31_Witness ==
    \E w \in Workers :
        /\ pc[w] = "status" /\ mu[w] = "worker"
        /\ pinger[w].pc = "done" /\ token[w]
        /\ hops[w] = 0 /\ ext = 0
        /\ Len(events[handle[w].id]) >= 3


\* C33: whenever take_task returns a task, it was the Queued task of a known
\* kind with the smallest id when the select ran, and it is returned with
\* status Running and expire_time now + lease while id, kind, config and
\* state are those of the selected row
C33_TakesSmallestKnown ==
    [][\A w \in Workers :
          /\ (pc[w] = "loop" /\ pc'[w] = "selected")
             => LET K == {t \in TaskIds :
                            /\ rows[t].status = Queued
                            /\ rows[t].kind \in {JudgeSolution, UpdateProblemPackage}}
                IN /\ tx'[w].id \in K
                   /\ \A u \in K : tx'[w].id <= u
                   /\ tx'[w].snap = rows[tx'[w].id]
          /\ (pc[w] = "selected" /\ pc'[w] = "updated")
             => /\ tx'[w].id = tx[w].id /\ tx'[w].snap = tx[w].snap
                /\ tx'[w].new.expire = {now + LeaseSecs * Res}
          /\ (pc[w] = "updated" /\ pc'[w] = "claimed")
             => LET got == handle'[w].task
                    sel == tx[w].snap
                IN /\ got.id = tx[w].id
                   /\ got.kind = sel.kind
                   /\ got.config = sel.config
                   /\ got.state = sel.state
                   /\ sel.status = Queued
                   /\ got.status = Running
                   /\ got.expire = OptFromValue(OptToValue(tx[w].new.expire))
                   /\ rows'[tx[w].id] = IntoRow(got)
      ]_vars

\* take_task has returned the second task while the first one, of an Unknown
\* kind, is still Queued
C33_Witness ==
    \E w \in Workers :
        /\ pc[w] = "claimed"
        /\ handle[w].id = 2
        /\ handle[w].task.status = Running
        /\ rows[1].status = Queued

\* the expire_time last stored through worker w's handle is earlier than now
LeaseRanOut(w) ==
    handle[w].id # 0 /\ \E v \in handle[w].stored.expire : v < now

\* C35: a ping, set_status or set_state called when the handle's last
\* stored expire_time is earlier than now begins no database write and
\* fails, though the row may still match the fence; a handler that finishes
\* after its lease ran out never gets its terminal status recorded
C35_ExpiredHandleWritesNothing ==
    [][\A w \in Workers :
          LeaseRanOut(w) /\ now' = now /\ mu[w] = "free" =>
              /\ mu'[w] = "free" /\ tx'[w] = tx[w]
              /\ (pc'[w] # pc[w] \/ pinger'[w] # pinger[w]
                    \/ hops'[w] # hops[w])
                 => rows' = rows /\ events' = events
              /\ (pc[w] = "final" /\ pc'[w] # "final")
                 => pc'[w] = "status_err"
              /\ (pinger[w].pc = "call" /\ pinger'[w].pc # "call")
                 => pinger'[w].pc = "sleep" /\ pinger'[w].failed
      ]_vars

\* set_status has failed on an expired handle whose row still matches the
\* fence tuple, and the row stays Running
C35_Witness ==
    \E w \in Workers :
        /\ pc[w] = "status_err" /\ LeaseRanOut(w)
        /\ FencePredicate(rows[handle[w].id], handle[w].stored)
        /\ rows[handle[w].id].status = Running

\* the step leaves the tables, the transactions and worker w's handle (its
\* task and stored_task mirrors) as they were
CallChangedNothing(w) ==
    /\ handle'[w] = handle[w]
    /\ rows' = rows /\ events' = events /\ commits' = commits
    /\ tx' = tx /\ mu' = mu

\* C36: a ping, set_status or set_state that fails, on an expired lease or
\* on a fence conflict, leaves the database row and both mirrors of the
\* handle, task and stored_task, as they were before the call
C36_FailedUpdateChangesNothing ==
    [][\A w \in Workers :
          /\ (pc[w] = "final" /\ pc'[w] = "status_err")
             => CallChangedNothing(w)
          /\ (pinger[w].pc = "call" /\ pinger'[w].pc = "sleep")
             => CallChangedNothing(w)
          /\ (pc[w] = "handler" /\ hops'[w] # hops[w] /\ mu'[w] = "free"
                /\ handle'[w].task.state = handle[w].task.state)
             => CallChangedNothing(w)
      ]_vars

\* set_status has failed on a fence conflict, the lease not yet run out:
\* the mirrors still hold the Running task they held before
C36_Witness ==
    \E w \in Workers :
        /\ pc[w] = "status_err" /\ ~LeaseRanOut(w)
        /\ ~FencePredicate(rows[handle[w].id], handle[w].stored)
        /\ handle[w].task.status = Running
        /\ handle[w].stored.status = Running

\* C38: a take_task made while a Queued task of a known kind exists and no
\* other worker has a transaction open selects a task, and its update of
\* that task, the row not having changed since, succeeds, however many
\* Queued rows of an Unknown kind have smaller ids
C38_UnknownKindsCannotStarve ==
    [][\A w \in Workers :
          (/\ \E t \in TaskIds :
                  /\ rows[t].status = Queued
                  /\ TaskKindOf(rows[t].kind) # "Unknown"
           /\ \A v \in Workers \ {w} : tx[v] = NoTx) =>
              /\ (pc[w] = "loop" /\ pc'[w] # "loop") => pc'[w] = "selected"
              /\ (pc[w] = "selected" /\ pc'[w] # "selected"
                    /\ ~tx[w].stale)
                 => pc'[w] = "updated"
      ]_vars

\* C39: shutdown signalled while a worker is inside take_task orphans no
\* claim: whenever a take_task transaction commits a task as Running, the
\* worker that ran it holds the task and goes on to run its handler
C39_ShutdownNeverOrphans ==
    [][\A t \in TaskIds :
          commits'[t] # commits[t] =>
              /\ rows'[t].status = Running
              /\ \E w \in Workers :
                     /\ pc[w] = "updated" /\ pc'[w] = "claimed"
                     /\ handle'[w].id = t
      ]_vars

\* ---------------------------------------------------------- cache claims
Objects == 1..Len(fut)
LoadsRunning(k) == {f \in Objects : fut[f].key = k /\ fut[f].st = "running"}
Loaded(o) == fut[o].st = "done" /\ fut[o].res = "ok"

\* C3: for every key at most one Store::load call is in progress
C3_OneLoadInProgress ==
    \A k \in Keys : Cardinality(LoadsRunning(k)) <= 1

\* a key is being loaded again, by one caller, while another awaits the
\* same future
C3_Witness ==
    \E c, d \in Callers :
        /\ c # d
        /\ cpc[c] = "loading" /\ cpc[d] = "await" /\ cfut[d] = cfut[c]
        /\ loads[ckey[c]] >= 2

\* C4: Store::free is called at most once per loaded value, never while a
\* handle to it exists, and it has been called once no handle is left
C4_FreeAfterLastHandle ==
    \A o \in DOMAIN freed :
        /\ freed[o] <= 1
        /\ freed[o] = 1 => o \in Objects /\ Loaded(o) /\ RefCount(o) = 0
        /\ (o \in Objects /\ Loaded(o) /\ RefCount(o) = 0) => freed[o] = 1

\* a value is out of the cache (deleted or evicted) and not freed, a caller
\* still holding it, while another value has been freed
C4_Witness ==
    \E c \in Callers, o \in Objects :
        /\ held[c] = o /\ RefCount(o) = 1 /\ freed[o] = 0
        /\ \E p \in Objects : p # o /\ freed[p] = 1

\* C5: for a key that only load() calls have touched, Store::load is
\* called at most once and all handles callers hold are of one value
C5_SingleFlight ==
    \A k \in Keys :
        plain[k] =>
            /\ loads[k] <= 1
            /\ \A c, d \in Callers :
                   (/\ held[c] # 0 /\ held[d] # 0
                    /\ fut[held[c]].key = k /\ fut[held[d]].key = k)
                   => held[c] = held[d]

\* ----------------------------------------------------- object store claims
\* caller c's method returns in this step, with result `res`
StoreReturns(c, res) == sop[c].pc # res /\ sop'[c].pc = res

\* the committed tables change in this step as a successful `op` on `id`
\* writing `row` has to change them: one event of the method's kind is
\* appended and the one object row is inserted, replaced or removed
CommitsAs(op, id, row) ==
    /\ log' = Append(log, [kind |-> CASE op = "create" -> "Create"
                                      [] op = "delete" -> "Delete"
                                      [] OTHER -> "Update",
                           id |-> id])
    /\ CASE op = "create" ->
              /\ id \notin DOMAIN table
              /\ DOMAIN table' = DOMAIN table \cup {id}
              /\ table'[id] = row
              /\ \A i \in DOMAIN table : table'[i] = table[i]
         [] op = "delete" ->
              /\ id \in DOMAIN table
              /\ DOMAIN table' = DOMAIN table \ {id}
              /\ \A i \in DOMAIN table' : table'[i] = table[i]
         [] OTHER ->
              /\ id \in DOMAIN table
              /\ DOMAIN table' = DOMAIN table
              /\ table'[id] = row
              /\ \A i \in DOMAIN table \ {id} : table'[i] = table[i]

\* C17: a store method that returns Ok has committed, in the same step, one
\* event row of its kind (Create, Update, Update, Delete) together with its
\* change of the object row; the two tables change in no other step, so a
\* method that fails has committed neither an object row nor an event row
C17_EventWithObject ==
    [][/\ \A c \in Clients :
            StoreReturns(c, "ok") =>
                CommitsAs(sop[c].op, sop[c].id, sop[c].row)
       /\ (table' # table \/ log' # log) =>
            \E c \in Clients : StoreReturns(c, "ok")
       /\ \A c \in Clients :
            StoreReturns(c, "err") \/ StoreReturns(c, "panic") =>
                table' = table /\ log' = log
      ]_vars

\* events of all three kinds are committed and a method has failed after its
\* object statement was executed
C17_Witness ==
    /\ \A k \in {"Create", "Update", "Delete"} :
           \E i \in DOMAIN log : log[i].kind = k
    /\ \E c \in Clients :
           /\ sop[c].pc = "err" /\ sop[c].op = "update"
           /\ sop[c].id \in DOMAIN table
           /\ table[sop[c].id] # sop[c].row
           /\ PredicateHolds(table[sop[c].id], sop[c].pred)
           /\ ~StoreBusy(c, sop[c].id)

\* the event kinds recorded for an object id, in event_id order
KindsOf(id) ==
    LET idx == {i \in DOMAIN log : log[i].id = id}
        nth(n) == CHOOSE i \in idx : Cardinality({j \in idx : j < i}) = n - 1
    IN [n \in 1..Cardinality(idx) |-> log[nth(n)].kind]

\* seq is a prefix of Create, Update*, Delete?
IsLifecyclePrefix(seq) ==
    \A n \in DOMAIN seq :
        /\ (seq[n] = "Create") = (n = 1)
        /\ seq[n] = "Delete" => n = Len(seq)

\* C18: the event kinds recorded for an object id, in event_id order, are
\* a prefix of Create, Update*, Delete?
C18_EventLifecycle ==
    \A id \in ObjectIds : IsLifecyclePrefix(KindsOf(id))

\* the call in this step is update_where by caller c
CallsUpdateWhere(c) ==
    sop[c].pc = "idle" /\ sop'[c].op = "update_where"

\* a row with the id of the call satisfies the predicate of the call
RowSatisfies(c) ==
    /\ sop'[c].id \in DOMAIN table
    /\ \A s \in sop'[c].pred : table[sop'[c].id].state = s

\* C19: update_where changes the row only if a row with the object's id
\* satisfies the predicate; a call that finds no such row returns an error,
\* writes no event and leaves every row unchanged
C19_UpdateWhereGuarded ==
    [][\A c \in Clients :
         /\ CallsUpdateWhere(c) /\ ~RowSatisfies(c) =>
                /\ sop'[c].pc = "err"
                /\ table' = table /\ log' = log
         /\ sop[c].op = "update_where" /\ StoreReturns(c, "ok") =>
                /\ sop[c].id \in DOMAIN table
                /\ \A s \in sop[c].pred : table[sop[c].id].state = s
      ]_vars

\* the call in this step is create by caller c with an object that is not
\* valid
CallsCreateInvalid(c) ==
    /\ sop[c].pc = "idle" /\ sop'[c].op = "create"
    /\ TaskKindOf(sop'[c].row.kind) = "Unknown"

\* C20: create with an object whose is_valid() is false returns an error and
\* inserts neither an object row nor an event row
C20_CreateInvalidErr ==
    [][\A c \in Clients :
         CallsCreateInvalid(c) =>
             /\ sop'[c].pc = "err"
             /\ table' = table /\ log' = log
      ]_vars

\* a method called with the caller's transaction returns in this step
JoinReturns(c) ==
    /\ sop[c].pc = "idle" /\ ctx[c].st = "open"
    /\ sop'[c].pc \in {"joined", "err"}

\* C21: a method called with the caller's transaction changes neither table
\* and leaves the transaction open, with its object row and its event in
\* it when it returns Ok; the rows and events of the transaction reach the
\* tables when the caller commits, and only then, and a rollback leaves the
\* tables as they are.  A method called without a transaction changes the
\* tables only when it returns Ok
C21_JoinsCallerTx ==
    [][/\ \A c \in Clients :
            /\ JoinReturns(c) =>
                 /\ table' = table /\ log' = log
                 /\ ctx'[c].st \in {"open", "failed"}
                 /\ sop'[c].pc = "joined" =>
                      /\ ctx'[c].evs =
                            Append(ctx[c].evs,
                                   [kind |-> CASE sop'[c].op = "create" -> "Create"
                                               [] sop'[c].op = "delete" -> "Delete"
                                               [] OTHER -> "Update",
                                    id |-> sop'[c].id])
                      /\ IF sop'[c].op = "delete"
                         THEN sop'[c].id \notin DOMAIN ctx'[c].writes
                              /\ sop'[c].id \in DOMAIN table
                                    => sop'[c].id \in ctx'[c].dels
                         ELSE /\ sop'[c].id \in DOMAIN ctx'[c].writes
                              /\ ctx'[c].writes[sop'[c].id] = sop'[c].row
            /\ (ctx[c].st # "none" /\ ctx'[c].st = "none") =>
                 \/ table' = table /\ log' = log
                 \/ /\ ctx[c].st = "open" /\ sop[c].pc = "idle"
                    /\ log' = log \o ctx[c].evs
                    /\ \A i \in DOMAIN ctx[c].writes :
                          i \in DOMAIN table' /\ table'[i] = ctx[c].writes[i]
                    /\ \A i \in ctx[c].dels : i \notin DOMAIN table'
                    /\ \A i \in ObjectIds \ Touched(c) :
                          /\ (i \in DOMAIN table') = (i \in DOMAIN table)
                          /\ i \in DOMAIN table => table'[i] = table[i]
       /\ (table' # table \/ log' # log) =>
            \E c \in Clients :
                \/ StoreReturns(c, "ok")
                \/ ctx[c].st = "open" /\ ctx'[c].st = "none"
                      /\ sop[c].pc = "idle" /\ sop'[c].pc = "idle"
      ]_vars

\* a caller's open transaction holds two methods' writes, among them a row
\* it created; nothing of it is in the tables, and another caller's update
\* of that row has failed
C21_Witness ==
    \E c \in Clients, d \in Clients :
        /\ c # d
        /\ ctx[c].st = "open" /\ Len(ctx[c].evs) = 2
        /\ sop[d].pc = "err" /\ sop[d].op = "update" /\ ctx[d].st = "none"
        /\ sop[d].id \in DOMAIN ctx[c].writes
        /\ sop[d].id \notin DOMAIN table
        /\ \A i \in DOMAIN log : log[i].id # sop[d].id

\* caller c is handed the result of a load that failed
GetsError(c) ==
    /\ cpc[c] \in {"await", "finish"} /\ cpc'[c] # cpc[c]
    /\ fut[cfut[c]].res = "err"

\* C22: when Store::load has failed, the caller that ran the load and every
\* caller awaiting it return the error and no object, the in-flight entry
\* of the key is removed and the cache is left as it was; a completed load
\* is never in the in-flight map and a failed one never in the cache, so a
\* later load joins only a load that has not completed or starts a new one
C22_FailedLoadNotCached ==
    /\ [](\A k \in Keys : futs[k] # 0 => fut[futs[k]].st # "done")
    /\ [](\A i \in 1..Len(cache) : fut[cache[i].obj].res = "ok")
    /\ [](\A c \in Callers :
             cpc[c] = "await" /\ fut[cfut[c]].st = "done"
                => ENABLED Collect(c))
    /\ [][\A c \in Callers :
            /\ GetsError(c) =>
                 /\ cpc'[c] = "idle" /\ held'[c] = 0
                 /\ cache' = cache
                 /\ cpc[c] = "finish" => futs'[fut[cfut[c]].key] = 0
            /\ (cpc[c] \in {"fget", "reload"} /\ cpc'[c] = "await") =>
                 /\ fut'[cfut'[c]].st \in {"idle", "running", "loaded"}
                 /\ fut'[cfut'[c]].key = ckey[c]
         ]_vars

\* two callers wait on a load that has failed, and after a failed load of a
\* key Store::load is running for that key again
C22_Witness ==
    \E f \in 1..Len(fut), g \in 1..Len(fut) :
        /\ fut[f].st = "done" /\ fut[f].res = "err"
        /\ g > f /\ fut[g].key = fut[f].key /\ fut[g].st = "running"
        /\ fut[f].key \notin CacheKeys

\* ------------------------------------------------------------ file claims
\* caller u's confirm returns
ConfirmReturns(u) == fop[u].pc = "pending" /\ fop'[u].pc = "confirmed"

HoldsPending(u) == fop[u].pc = "pending"

\* C24: while a PendingFile is held and confirm has not been called, the
\* persisted row of its id is Pending with an expire_time and its meta has
\* the size, md5 and sha3_224 of the content
C24_PendingRowHashed ==
    \A u \in Uploaders :
        HoldsPending(u) =>
            /\ frow[fop[u].id] # NoFile
            /\ frow[fop[u].id].status = FilePending
            /\ frow[fop[u].id].expire # "null"
            /\ {"size", "md5", "sha3_224"} \subseteq frow[fop[u].id].meta

\* C40: under every interleaving of upload, confirm and delete on a file,
\* a row with status Available has its blob in the storage
C40_AvailableHasBlob ==
    \A id \in FileIds :
        (frow[id] # NoFile /\ frow[id].status = FileAvailable)
            => frow[id].path \in fblob

\* ---------------------------------------------------------- sandbox claims
\* C25: once wait() has returned a Report, every later wait() returns the
\* same Report
C25_WaitIdempotent ==
    \A i \in 1..Len(proc.waits), j \in 1..Len(proc.waits) :
        i < j /\ proc.waits[i].ok => proc.waits[j] = proc.waits[i]

\* the supervisor may give up on the child
MayKill == proc.tok = "cancelled" \/ xnow > RealTimeLimit

\* C26: a started supervisor ends and a wait() that awaits it is released;
\* a child alive when the token is cancelled or the clock is past
\* start_time + real_time_limit is reaped; the supervisor's SIGKILL lands
\* only when one of the two holds
C26_SupervisorTerminates ==
    /\ (sup.pc # "none") ~> (sup.pc = "done")
    /\ proc.waiting ~> ~proc.waiting
    /\ (child.st = "alive" /\ MayKill) ~> (child.st = "reaped")
    /\ [][sup.pc # "kill" /\ sup'.pc = "kill" => MayKill]_vars
    /\ [][child.killed = "none" /\ child'.killed # "none" =>
            /\ MayKill
            /\ child'.status = [kind |-> "signaled", code |-> SIGKILL]
            /\ child'.st = "reaped"]_vars

\* a child that ran past the limit was killed by the supervisor and the
\* wait() of its owner has returned the Report
C26_Witness ==
    /\ child.killed = "deadline" /\ child.st = "reaped"
    /\ sup.pc = "done"
    /\ Len(proc.waits) = 1 /\ proc.waits[1].ok

\* the supervisor has returned its Report
Reported == sup.pc = "done"

\* C27: the exit_code of the Report is the exit status of a child that
\* exited by itself and the signal number of a child that a signal killed;
\* a child the supervisor killed for running past real_time_limit is
\* reported with exit_code 9 and real_time = real_time_limit + 1 ms
C27_ExitCode ==
    Reported =>
        /\ child.status.kind = "exited" =>
              sup.report.exit_code = child.status.code
        /\ child.status.kind = "signaled" =>
              sup.report.exit_code = child.status.code
        /\ child.killed = "deadline" =>
              /\ sup.report.exit_code = SIGKILL
              /\ sup.report.real_time = RealTimeLimit + TicksPerMs

\* a child killed for overshoot was reaped more than 1 ms past the limit
\* and is reported with exit_code 9 and the clamped real_time
C27_Witness ==
    /\ Reported /\ child.killed = "deadline"
    /\ xnow > RealTimeLimit + TicksPerMs
    /\ sup.report.exit_code = SIGKILL
    /\ sup.report.real_time = RealTimeLimit + TicksPerMs

\* C28 as stated: real_time <= real_time_limit + 1 ms holds if and only if
\* the process was killed for wall-clock overshoot
C28_RealTimeIffKilled ==
    Reported =>
        (sup.report.real_time <= RealTimeLimit + TicksPerMs
            <=> child.killed = "deadline")

\* C28 amended: real_time <= real_time_limit + 1 ms holds of every Report;
\* real_time is real_time_limit + 1 ms exactly when the time measured after
\* the child was reaped is past real_time_limit, and that is the case of
\* every process killed for wall-clock overshoot
C28_RealTimeClamped ==
    Reported =>
        /\ sup.report.real_time <= RealTimeLimit + TicksPerMs
        /\ sup.report.real_time = RealTimeLimit + TicksPerMs
              <=> xnow > RealTimeLimit
        /\ xnow <= RealTimeLimit => sup.report.real_time = xnow
        /\ child.killed = "deadline" =>
              sup.report.real_time = RealTimeLimit + TicksPerMs

\* a child that ended by itself after the limit and before the next poll
\* is reported with the clamped real_time though nobody killed it
C28_Witness ==
    /\ Reported /\ child.killed = "none"
    /\ child.status.kind = "exited"
    /\ xnow > RealTimeLimit + TicksPerMs
    /\ sup.report.real_time = RealTimeLimit + TicksPerMs

\* C29: the state directory and the cgroup of a Process are removed only
\* after its token, when it has one, is cancelled and its supervisor, when
\* it has one, has reaped the child and ended
C29_DropWaitsForSupervisor ==
    ~proc.dirs =>
        /\ proc.tok # "live"
        /\ sup.pc \in {"none", "done"}
        /\ child.st \in {"none", "reaped"}

\* C34: a Process runs its command at most once: a start() on a process
\* that was started before spawns no child and is refused, in every later
\* state, after wait() has returned too
C34_RunsAtMostOnce ==
    [][proc.started => proc'.spawned = proc.spawned]_vars

\* ------------------------------------------------------------ enum claims
\* C30: decoding a stored integer v of an enum column never fails; it
\* yields the named variant whose discriminant is v, or Unknown(v), and
\* encoding the decoded value yields v
C30_EnumRoundTrip ==
    /\ conv.pc # "failed"
    /\ conv.pc \in {"decoded", "encoded"} =>
          /\ conv.dec.v = conv.v
          /\ conv.dec.named <=> conv.v \in Named(conv.enum)
    /\ conv.pc = "encoded" => conv.out = conv.v

\* ------------------------------------------------------ cache lock claims
\* caller d is inside Store::load
InStore(d) == cpc[d] = "loading"

\* caller c has a load or reload call in progress that is not inside the
\* store and that the bound on futures does not stop
InManager(c) ==
    /\ cpc[c] \notin {"idle", "have", "loading"}
    /\ cpc[c] = "reload" /\ futs[ckey[c]] = 0 => Len(fut) < MaxLoads

\* C32: a caller inside Store::load holds no guard of the futures lock (the
\* LRU mutex is held only within single cache steps), and no call waits for
\* a caller that is inside the store unless it awaits that very load: a
\* call in progress can take its next step, or awaits a load that is
\* running, or waits for the futures lock behind readers that can take
\* their next step
C32_LoadOutsideLocks ==
    /\ \A d \in Callers : InStore(d) => d \notin readers
    /\ \A c \in Callers :
          InManager(c) =>
             \/ ENABLED CallerNext(c)
             \/ /\ cpc[c] = "await"
                /\ fut[cfut[c]].st \in {"running", "loaded"}
                /\ fut[cfut[c]].key = ckey[c]
             \/ /\ cpc[c] \in {"reload", "finish"}
                /\ readers # {}
                /\ \A r \in readers : ~InStore(r) /\ ENABLED CallerNext(r)

\* while one caller is inside Store::load, another has loaded a different
\* key through a load that began later, and holds the object
C32_Witness ==
    \E c \in Callers, d \in Callers :
        /\ InStore(d)
        /\ cpc[c] = "have" /\ held[c] > cfut[d]
        /\ fut[held[c]].key # fut[cfut[d]].key


\* ----------------------------------------------------- handle mutex claims
\* C37: the pinger and the handler using one Task handle never deadlock:
\* stored_task is locked only by the holder of task, and every call that
\* has begun returns, the database call returning
C37_HandleCallsReturn ==
    /\ [](lk["stored"] # "none" => lk["task"] = lk["stored"])
    /\ [][\A m \in {"task", "stored"} :
            lk'[m] # lk[m] /\ lk'[m] # "none" =>
                /\ lk[m] = "none"
                /\ m = "stored" => lk["task"] = lk'[m]]_vars
    /\ \A u \in Users : (hu[u].pc # "idle") ~> (hu[u].pc = "idle")

\* the handler's set_state waits for the task mutex while the pinger's
\* ping holds both mutexes across its database call
C37_Witness ==
    /\ hu["pinger"].op = "ping" /\ hu["pinger"].pc = "db"
    /\ lk["task"] = "pinger" /\ lk["stored"] = "pinger"
    /\ hu["handler"].op = "set_state" /\ hu["handler"].pc = "lock"
    /\ lq["task"] = <<"handler">>

====
